---- MODULE Spec2Model ----
(***************************************************************************)
(* Model of the Quest web installer: the installation orchestrator        *)
(* (main.ts and its direct-download variant) on top of the single-slot    *)
(* ADB session service (adbService).                                      *)
(*                                                                         *)
(* Strings are sequences of one-character strings, so that the string     *)
(* functions of the source (trim, split, endsWith, replace, ...) are      *)
(* computed and not assumed.                                              *)
(*                                                                         *)
(* Every action is one run of a handler between two suspension points of  *)
(* the event loop: a click runs the handler up to its first await on an   *)
(* external promise, and the settling of that promise runs the            *)
(* continuation up to the next one.                                       *)
(***************************************************************************)
EXTENDS Integers, Sequences, FiniteSets, TLC

----------------------------------------------------------------------------
(* String helpers (JavaScript String.prototype)                            *)

Uppers == <<"A","B","C","D","E","F","G","H","I","J","K","L","M",
            "N","O","P","Q","R","S","T","U","V","W","X","Y","Z">>

Lowers == <<"a","b","c","d","e","f","g","h","i","j","k","l","m",
            "n","o","p","q","r","s","t","u","v","w","x","y","z">>

Digits == <<"0","1","2","3","4","5","6","7","8","9">>

Whitespace == {" ", "\t", "\n", "\r", "\f"}

Range(s) == {s[i] : i \in 1..Len(s)}

toLowerChar(c) ==
  IF \E i \in 1..26 : Uppers[i] = c
    THEN Lowers[CHOOSE i \in 1..26 : Uppers[i] = c]
    ELSE c

toLowerCase(s) == [i \in 1..Len(s) |-> toLowerChar(s[i])]

startsWithAt(s, sub, i) ==
  /\ i + Len(sub) - 1 <= Len(s)
  /\ \A j \in 1..Len(sub) : s[i + j - 1] = sub[j]

includes(s, sub) == \E i \in 1..(Len(s) - Len(sub) + 1) : startsWithAt(s, sub, i)

endsWith(s, suf) ==
  /\ Len(suf) <= Len(s)
  /\ SubSeq(s, Len(s) - Len(suf) + 1, Len(s)) = suf

\* 1-based position of the first occurrence of the character c, 0 when absent
\* (JavaScript: 0-based, -1 when absent).
indexOf(s, c) ==
  IF \E i \in 1..Len(s) : s[i] = c
    THEN CHOOSE i \in 1..Len(s) : s[i] = c /\ \A j \in 1..(i - 1) : s[j] # c
    ELSE 0

RECURSIVE split(_, _)
split(s, sep) ==
  LET i == indexOf(s, sep) IN
  IF i = 0 THEN <<s>>
  ELSE <<SubSeq(s, 1, i - 1)>> \o split(SubSeq(s, i + 1, Len(s)), sep)

trim(s) ==
  IF \A i \in 1..Len(s) : s[i] \in Whitespace THEN <<>>
  ELSE LET a == CHOOSE i \in 1..Len(s) :
                  s[i] \notin Whitespace /\ \A j \in 1..(i - 1) : s[j] \in Whitespace
           b == CHOOSE i \in 1..Len(s) :
                  s[i] \notin Whitespace /\ \A j \in (i + 1)..Len(s) : s[j] \in Whitespace
       IN SubSeq(s, a, b)

\* text.split(/\r?\n/): a "\r" directly before the "\n" belongs to the separator.
splitLines(text) ==
  LET raw == split(text, "\n")
      dropCr(l) == IF Len(l) > 0 /\ l[Len(l)] = "\r" THEN SubSeq(l, 1, Len(l) - 1) ELSE l
  IN [i \in 1..Len(raw) |-> IF i < Len(raw) THEN dropCr(raw[i]) ELSE raw[i]]

\* p.replace(/\\/g, "/")
slashes(p) == [i \in 1..Len(p) |-> IF p[i] = "\\" THEN "/" ELSE p[i]]

RECURSIVE stripLeadingSlashes(_)
stripLeadingSlashes(p) ==
  IF Len(p) > 0 /\ p[1] = "/" THEN stripLeadingSlashes(Tail(p)) ELSE p

\* String(n) of a non-negative integer
RECURSIVE itoa(_)
itoa(n) == IF n < 10 THEN <<Digits[n + 1]>> ELSE itoa(n \div 10) \o <<Digits[(n % 10) + 1]>>

\* 1-based findIndex over a sequence, 0 when no element satisfies Test
FindIndex(seq, Test(_)) ==
  IF \E i \in 1..Len(seq) : Test(seq[i])
    THEN CHOOSE i \in 1..Len(seq) : Test(seq[i]) /\ \A j \in 1..(i - 1) : ~Test(seq[j])
    ELSE 0

----------------------------------------------------------------------------
(* Pure helpers of main.ts                                                 *)

SafeChars == Range(Uppers) \cup Range(Lowers) \cup Range(Digits) \cup {".", "_", "-"}

sanitize(name) == [i \in 1..Len(name) |-> IF name[i] \in SafeChars THEN name[i] ELSE "_"]

basename(p) ==
  LET parts == split(slashes(p), "/")
      last == parts[Len(parts)]
  IN IF last # <<>> THEN last ELSE p

normManifestPath(p) ==
  LET t == trim(p)
      a == IF Len(t) >= 2 /\ t[1] = "." /\ t[2] = "/"
             THEN stripLeadingSlashes(Tail(t))
             ELSE t
  IN stripLeadingSlashes(a)

stripTopFolder(rel) ==
  LET idx == indexOf(rel, "/") IN
  IF idx > 0 THEN SubSeq(rel, idx + 1, Len(rel)) ELSE rel

----------------------------------------------------------------------------
(* Literals of main.ts                                                     *)

sPackageName == <<"P","a","c","k","a","g","e"," ","N","a","m","e">>   \* "Package Name"
sVersionCode == <<"V","e","r","s","i","o","n"," ","C","o","d","e">>   \* "Version Code"
sFilelist == <<"#","f","i","l","e","l","i","s","t">>   \* "#filelist"
sApkExt == <<".","a","p","k">>   \* ".apk"
sObbExt == <<".","o","b","b">>   \* ".obb"
sSuccess == <<"s","u","c","c","e","s","s">>   \* "success"
sReleaseManifest == <<"r","e","l","e","a","s","e",".","m","a","n","i","f","e","s","t">>   \* "release.manifest"
sSlashReleaseManifest == <<"/">> \o sReleaseManifest   \* "/release.manifest"
sTmpDir == <<"/","d","a","t","a","/","l","o","c","a","l","/","t","m","p","/">>   \* "/data/local/tmp/"
sObbRoot == <<"/","s","d","c","a","r","d","/","A","n","d","r","o","i","d","/","o","b","b","/">>   \* "/sdcard/Android/obb/"
APK_FILE_NAME == <<"r","o","o","k","i","e","-","o","n","-","q","u","e","s","t",".","a","p","k">>   \* "rookie-on-quest.apk"

\* the argv of the shell calls, without the path argument
PmInstall == <<"pm", "install", "-r">>

RmForce == <<"rm", "-f">>

MkdirParents == <<"mkdir", "-p">>

GetpropModel == <<"getprop", "ro.product.model">>

GetpropManufacturer == <<"getprop", "ro.product.manufacturer">>

----------------------------------------------------------------------------
(* Errors.  A message is [template, args]: the template literal as it      *)
(* stands in the source and the interpolated values as character           *)
(* sequences.  A thrown value is [hasMessage, message, str]: hasMessage    *)
(* says whether e?.message is defined, str is String(e).                   *)

Msg(t, a) == [template |-> t, args |-> a]

NoMsg == Msg("", <<>>)

Error(msg) == [hasMessage |-> TRUE, message |-> msg, str |-> [prefix |-> "Error: ", msg |-> msg]]

NoError == [hasMessage |-> FALSE, message |-> NoMsg, str |-> [prefix |-> "", msg |-> NoMsg]]

\* logErr as it would be with `X ${String(e)}`: the line carries "Error: "
\* before the message
logErrString(e) == [prefix |-> "(cross mark) ", text |-> e.str]

\* logErr: log(`X ${e?.message ?? String(e)}`), X being the cross-mark sign
logErr(e) ==
  [prefix |-> "(cross mark) ",
   text |-> IF e.hasMessage THEN [prefix |-> "", msg |-> e.message] ELSE e.str]

NoLog == [prefix |-> "", text |-> [prefix |-> "", msg |-> NoMsg]]

ErrNotConnected == Error(Msg("No device connected. Click Connect first.", <<>>))
ErrNoDevice == Error(Msg("No device connected.", <<>>))
ErrPickApk == Error(Msg("Pick an APK first.", <<>>))
ErrPickBundle == Error(Msg("Pick a bundle folder first.", <<>>))
ErrMissingManifest == Error(Msg("Bundle folder missing release.manifest", <<>>))
ErrHeader == Error(Msg("Manifest missing metadata header/row.", <<>>))
ErrColumns == Error(Msg("Manifest missing Package Name / Version Code columns.", <<>>))
ErrEmptyMeta == Error(Msg("Manifest has empty packageName/versionCode.", <<>>))
ErrNoFilelist == Error(Msg("Manifest missing #filelist section.", <<>>))
ErrNoApk == Error(Msg("Manifest filelist contains no APK.", <<>>))
ErrNoObb == Error(Msg("Manifest filelist contains no OBB.", <<>>))
ErrLocateApk(p) == Error(Msg("Could not locate APK file from manifest: ${info.apkPath}", <<p>>))
ErrLocateObb(p) == Error(Msg("Could not locate OBB from manifest: ${obbPathRaw}", <<p>>))
ErrDownload(status) == Error(Msg("Could not download APK asset (${apkResponse.status}).", <<itoa(status)>>))

----------------------------------------------------------------------------
(* Manifest parser                                                         *)

NoInfo == [packageName |-> <<>>, versionCode |-> <<>>, apkPath |-> <<>>, obbPaths |-> <<>>]

Threw(e) == [ok |-> FALSE, error |-> e, info |-> NoInfo]

Returned(i) == [ok |-> TRUE, error |-> NoError, info |-> i]

\* filelistPaths as it would be without the test parts.length < 3
RECURSIVE filelistPathsAnyLength(_, _)
filelistPathsAnyLength(lines, from) ==
  IF from > Len(lines) THEN <<>>
  ELSE LET l == lines[from]
           parts == split(l, ";")
           rest == filelistPathsAnyLength(lines, from + 1)
       IN IF ~includes(l, <<";">>) THEN rest
          ELSE IF parts[1] # <<"f">> THEN rest
          ELSE <<normManifestPath(parts[2])>> \o rest

\* the filelist loop of parseReleaseManifest: the normalized paths of the
\* entries "f;<path>;..." among lines[from..], in order
RECURSIVE filelistPaths(_, _)
filelistPaths(lines, from) ==
  IF from > Len(lines) THEN <<>>
  ELSE LET l == lines[from]
           parts == split(l, ";")
           rest == filelistPaths(lines, from + 1)
       IN IF ~includes(l, <<";">>) THEN rest
          ELSE IF Len(parts) < 3 THEN rest
          ELSE IF parts[1] # <<"f">> THEN rest
          ELSE <<normManifestPath(parts[2])>> \o rest

\* lines = text.split(/\r?\n/).map(l => l.trim()).filter(Boolean)
manifestLines(text) ==
  LET NonEmpty(l) == l # <<>>
  IN SelectSeq([i \in 1..Len(splitLines(text)) |-> trim(splitLines(text)[i])], NonEmpty)

IsHeader(l) == includes(l, sPackageName) /\ includes(l, sVersionCode) /\ includes(l, <<";">>)

IsFilelist(l) == toLowerCase(l) = sFilelist

IsApkPath(p) == endsWith(toLowerCase(p), sApkExt)

IsObbPath(p) == endsWith(toLowerCase(p), sObbExt)

\* header.findIndex(h => h.trim() === label), 1-based, 0 when absent
column(header, label) ==
  LET IsLabel(h) == trim(h) = label
  IN FindIndex(header, IsLabel)

\* row[c] || ""
cell(row, c) == IF c <= Len(row) THEN row[c] ELSE <<>>

\* parseReleaseManifest, written as the chain of its checks: each stage takes
\* the locals computed so far

\* parseFiles as it would be without the test !obbPaths.length
parseFilesWithoutObbTest(packageName, versionCode, apkPaths, obbPaths) ==
  IF apkPaths = <<>> THEN Threw(ErrNoApk)
  ELSE Returned([packageName |-> packageName, versionCode |-> versionCode,
                 apkPath |-> apkPaths[1], obbPaths |-> obbPaths])

parseFiles(packageName, versionCode, apkPaths, obbPaths) ==
  IF apkPaths = <<>> THEN Threw(ErrNoApk)
  ELSE IF obbPaths = <<>> THEN Threw(ErrNoObb)
  ELSE Returned([packageName |-> packageName, versionCode |-> versionCode,
                 apkPath |-> apkPaths[1], obbPaths |-> obbPaths])

parseMeta(lines, packageName, versionCode, filelistIdx) ==
  IF packageName = <<>> \/ versionCode = <<>> THEN Threw(ErrEmptyMeta)
  ELSE IF filelistIdx = 0 THEN Threw(ErrNoFilelist)
  ELSE parseFiles(packageName, versionCode,
                  SelectSeq(filelistPaths(lines, filelistIdx + 1), IsApkPath),
                  SelectSeq(filelistPaths(lines, filelistIdx + 1), IsObbPath))

parseColumns(lines, row, pkgCol, verCol) ==
  IF pkgCol = 0 \/ verCol = 0 THEN Threw(ErrColumns)
  ELSE parseMeta(lines, trim(cell(row, pkgCol)), trim(cell(row, verCol)),
                 FindIndex(lines, IsFilelist))

parseHeader(lines, headerIdx) ==
  IF headerIdx = 0 \/ headerIdx >= Len(lines) THEN Threw(ErrHeader)
  ELSE parseColumns(lines, split(lines[headerIdx + 1], ";"),
                    column(split(lines[headerIdx], ";"), sPackageName),
                    column(split(lines[headerIdx], ";"), sVersionCode))

parseLines(lines) == parseHeader(lines, FindIndex(lines, IsHeader))

parseReleaseManifest(text) == parseLines(manifestLines(text))

----------------------------------------------------------------------------
(* Bundle file resolver.  A File is a handle [id, name,                    *)
(* webkitRelativePath]; a Map<string, File> is a sequence of [key, file]   *)
(* in insertion order.                                                     *)

NoFile == [id |-> 0, name |-> <<>>, webkitRelativePath |-> <<>>]

mapHas(map, k) == \E i \in 1..Len(map) : map[i].key = k

mapGet(map, k) == IF mapHas(map, k) THEN map[CHOOSE i \in 1..Len(map) : map[i].key = k].file ELSE NoFile

\* Map.prototype.set: an existing key keeps its position
mapSet(map, k, f) ==
  IF mapHas(map, k)
    THEN [i \in 1..Len(map) |-> IF map[i].key = k THEN [key |-> k, file |-> f] ELSE map[i]]
    ELSE Append(map, [key |-> k, file |-> f])

RECURSIVE buildBundleFileMap(_)
buildBundleFileMap(files) ==
  IF files = <<>> THEN <<>>
  ELSE LET f == files[Len(files)]
           rel == IF f.webkitRelativePath # <<>> THEN f.webkitRelativePath ELSE f.name
       IN mapSet(buildBundleFileMap(SubSeq(files, 1, Len(files) - 1)), stripTopFolder(rel), f)

\* findFileByPathOrSuffix as it would be without the lookup of the exact key
findFileBySuffixOnly(map, manifestPath) ==
  LET want == slashes(manifestPath)
      Match(e) == endsWith(slashes(e.key), want)
      i == FindIndex(map, Match)
  IN IF i > 0 THEN map[i].file ELSE NoFile

findFileByPathOrSuffix(map, manifestPath) ==
  LET want == slashes(manifestPath)
      Match(e) == endsWith(slashes(e.key), want)
      i == FindIndex(map, Match)
  IN IF mapHas(map, manifestPath) THEN mapGet(map, manifestPath)
     ELSE IF i > 0 THEN map[i].file
     ELSE NoFile

\* installBundle's lookup of the manifest file
findManifestFile(map) ==
  LET Match(e) == endsWith(e.key, sSlashReleaseManifest) \/ endsWith(e.key, sReleaseManifest)
      i == FindIndex(map, Match)
  IN IF mapHas(map, sReleaseManifest) THEN mapGet(map, sReleaseManifest)
     ELSE IF i > 0 THEN map[i].file
     ELSE NoFile

----------------------------------------------------------------------------
(* Inputs: what the user picks and what the environment answers            *)

\* which main.ts is deployed: "main" is src/quest-web-installer/src/main.ts
\* (local package and bundle install), "direct" is the variant that downloads
\* the package from APK_DOWNLOAD_URL
Builds == {"main", "direct"}

File(id, name, rel) == [id |-> id, name |-> name, webkitRelativePath |-> rel]

\* scenario 1 of the specification: one package, one auxiliary file
manifestOne == <<"P","a","c","k","a","g","e"," ","N","a","m","e",";","V","e","r","s","i","o","n"," ","C","o","d","e","\n","c","o","m",".","e","x","a","m","p","l","e",".","a","p","p",";","4","2","\n","#","f","i","l","e","l","i","s","t","\n","f",";","g","a","m","e",".","a","p","k",";","1","0","0","\n","f",";","m","a","i","n",".","1",".","o","b","b",";","2","0","0","\n">>

\* CRLF lines, reordered columns, "./" prefixes, two auxiliary files
manifestTwo == <<"N","a","m","e",";","P","a","c","k","a","g","e"," ","N","a","m","e",";","V","e","r","s","i","o","n"," ","C","o","d","e","\r","\n","X",";"," ","c","o","m",".","b"," ",";","7","\r","\n","#","F","i","l","e","L","i","s","t","\r","\n","d",";",".","/","d","a","t","a",";","0","\r","\n","f",";",".","/","M","y"," ","G","a","m","e",".","A","P","K",";","1","\r","\n","f",";",".","/","d","a","t","a","/","m","a","i","n",".","o","b","b",";","2","\r","\n","f",";","p","a","t","c","h",".","o","b","b",";","3","\r","\n">>

\* no "#filelist" line
manifestBad == <<"P","a","c","k","a","g","e"," ","N","a","m","e",";","V","e","r","s","i","o","n"," ","C","o","d","e","\n","c","o","m",".","e","x","a","m","p","l","e",".","a","p","p",";","4","2","\n","f",";","g","a","m","e",".","a","p","k",";","1","0","0","\n","f",";","m","a","i","n",".","1",".","o","b","b",";","2","0","0","\n">>

fManifestOne == File(1, sReleaseManifest, <<"M","y","G","a","m","e","/","r","e","l","e","a","s","e",".","m","a","n","i","f","e","s","t">>)
fGameApk == File(2, <<"g","a","m","e",".","a","p","k">>, <<"M","y","G","a","m","e","/","g","a","m","e",".","a","p","k">>)
fMainObb == File(3, <<"m","a","i","n",".","1",".","o","b","b">>, <<"M","y","G","a","m","e","/","m","a","i","n",".","1",".","o","b","b">>)
fManifestTwo == File(4, sReleaseManifest, <<"T","o","p","/","i","n","n","e","r","/","r","e","l","e","a","s","e",".","m","a","n","i","f","e","s","t">>)
fMyGameApk == File(5, <<"M","y"," ","G","a","m","e",".","A","P","K">>, <<"T","o","p","/","i","n","n","e","r","/","M","y"," ","G","a","m","e",".","A","P","K">>)
fDataObb == File(6, <<"m","a","i","n",".","o","b","b">>, <<"T","o","p","/","i","n","n","e","r","/","d","a","t","a","/","m","a","i","n",".","o","b","b">>)
fPatchObb == File(7, <<"p","a","t","c","h",".","o","b","b">>, <<"T","o","p","/","i","n","n","e","r","/","p","a","t","c","h",".","o","b","b">>)
fManifestBad == File(8, sReleaseManifest, <<"M","y","G","a","m","e","/","r","e","l","e","a","s","e",".","m","a","n","i","f","e","s","t">>)
fPickedApk == File(9, <<"M","y"," ","A","p","p"," ","(","1",")",".","a","p","k">>, <<>>)
\* a File whose name holds slashes and characters the shell gives a meaning to
fOddApk == File(11, <<".",".","/","M","y"," ","A","p","p"," ","v","1",".","0"," ","(","f","i","n","a","l",")","!",";","$","x",".","a","p","k">>, <<>>)

\* File.text(): the content read from the picked file
fileText(f) ==
  IF f.id = 1 THEN manifestOne
  ELSE IF f.id = 4 THEN manifestTwo
  ELSE IF f.id = 8 THEN manifestBad
  ELSE <<>>

\* bundleInput.files: a picked folder, as the list of its files
BundleInputs ==
  { <<>>,                                              \* nothing picked
    <<fManifestOne, fGameApk, fMainObb>>,              \* complete, exact keys
    <<fMyGameApk, fPatchObb, fDataObb, fManifestTwo>>, \* complete, nested one level deeper
    <<fGameApk, fMainObb>>,                            \* no release.manifest
    <<fManifestBad, fGameApk, fMainObb>>,              \* manifest does not parse
    <<fManifestOne, fMainObb>>,                        \* package file not in the folder
    <<fManifestTwo, fMyGameApk, fDataObb>> }           \* second auxiliary file not in the folder

\* apkInput.files?.[0]
ApkInputs == {NoFile, fPickedApk, fOddApk}

\* Date.now()
Timestamps == {9, 10}

\* what "pm install -r" prints
PmOutputs == { <<"S","u","c","c","e","s","s","\n">>, <<"F","a","i","l","u","r","e"," ","[","I","N","S","T","A","L","L","_","F","A","I","L","E","D","]">>, <<>> }

\* what the ADB library or the browser rejects with: an Error object, or a
\* value without a message property
ErrDevice == Error(Msg("(error raised by the device library)", <<>>))

RejectedValue ==
  [hasMessage |-> FALSE, message |-> NoMsg,
   str |-> [prefix |-> "", msg |-> Msg("(rejection value of the device library)", <<>>)]]

DeviceErrors == {ErrDevice, RejectedValue}

\* HTTP status of the package download
HttpStatuses == {200, 404}

\* number of handler invocations (clicks) in one run
MaxClicks == 3

\* number of handler invocations that can be suspended at the same time
MaxTasks == 2

Tasks == 1..MaxTasks

Sessions == 1..MaxClicks

----------------------------------------------------------------------------
(* State                                                                   *)

VARIABLES
  build,       \* the deployed main.ts, fixed for the run
  currentAdb,  \* adbService: the session slot; 0 is null, otherwise a session
  connected,   \* main.ts: the UI's connected flag
  sessions,    \* the Adb objects created so far and what became of each
  tasks,       \* the handler invocations, each with its position and locals
  clicks,      \* number of handler invocations so far
  installDisabled,  \* direct build: installBtn.disabled
  probe        \* a function of the source applied on its own: its input and its result

vars == <<build, currentAdb, connected, sessions, tasks, clicks, installDisabled, probe>>

\* no function is applied on its own
NoProbe == [fn |-> "none"]

\* a handler invocation that has not been started
IdleTask ==
  [kind |-> "none", pc |-> "idle",
   ops |-> <<>>,            \* the calls of shell / pushFileStream it made, in order
   remoteApk |-> <<>>, out |-> <<>>,
   map |-> <<>>, manifestFile |-> NoFile, info |-> NoInfo, obbFiles |-> <<>>, i |-> 0,
   report |-> "none",       \* which of the two outcome lines installApkFile logged
   err |-> NoError,         \* the value caught by the handler's catch
   errLine |-> NoLog,       \* the line logErr wrote for it
   at |-> "idle",           \* where the handler was when the error was thrown
   picked |-> FALSE,        \* whether the click found a source selected
   startAdb |-> 0,          \* what the slot held at the click (0: nothing)
   startFlag |-> FALSE,     \* the connected flag at the click
   adb |-> 0,               \* disconnect(): the local adb
   authPending |-> 0]       \* number of calls of the onAuthPending callback

Finished(rec) == rec.pc \in {"done", "failed"}

Free(t) == tasks[t].pc = "idle" \/ Finished(tasks[t])

\* a click starts a handler invocation in the first free slot
CanClick(t) ==
  /\ clicks < MaxClicks
  /\ Free(t)
  /\ \A u \in 1..(t - 1) : ~Free(u)

\* the invocations after a step that leaves invocation t as rec: the record
\* of an invocation that has returned is kept for one step
Becomes(t, rec) ==
  [u \in Tasks |-> IF u = t THEN rec ELSE IF Finished(tasks[u]) THEN IdleTask ELSE tasks[u]]

Start(kind) == [IdleTask EXCEPT !.kind = kind, !.startAdb = currentAdb, !.startFlag = connected]

\* an install handler invocation; picked: whether it finds a source selected
StartInstall(kind, picked) == [Start(kind) EXCEPT !.picked = picked]

At(t, kind, pc) == tasks[t].kind = kind /\ tasks[t].pc = pc

\* try { ... } catch (e) { logErr(e); }
Caught(rec, e) == [rec EXCEPT !.pc = "failed", !.at = rec.pc, !.err = e, !.errLine = logErr(e)]

Done(rec) == [rec EXCEPT !.pc = "done"]

----------------------------------------------------------------------------
(* adbService: device calls.  An op is one call of shell or pushFileStream *)
(* with the session it was sent to; st is "inflight" until the promise of  *)
(* the device library settles, "rejected" when the call threw before       *)
(* anything was sent.                                                      *)

Op(call, cmd, path, file, adb, st) ==
  [call |-> call, cmd |-> cmd, path |-> path, file |-> file, sess |-> adb, st |-> st]

\* shell as it would be without the test of the slot: the command is handed
\* to whatever the slot holds
shellUnchecked(rec, adb, cmd, path, pc) ==
  [rec EXCEPT !.ops = Append(@, Op("shell", cmd, path, 0, adb, "inflight")), !.pc = pc]

\* shell(argv) called by rec's handler while the slot holds adb; the handler
\* awaits it at pc
shell(rec, adb, cmd, path, pc) ==
  IF adb = 0
    THEN Caught([rec EXCEPT !.ops = Append(@, Op("shell", cmd, path, 0, 0, "rejected"))], ErrNoDevice)
    ELSE [rec EXCEPT !.ops = Append(@, Op("shell", cmd, path, 0, adb, "inflight")), !.pc = pc]

\* pushFileStream(remotePath, file, onProgress): sync(), write, dispose on the
\* session in the slot
pushFileStream(rec, adb, remotePath, file, pc) ==
  IF adb = 0
    THEN Caught([rec EXCEPT !.ops = Append(@, Op("pushFileStream", <<>>, remotePath, file.id, 0, "rejected"))], ErrNoDevice)
    ELSE [rec EXCEPT !.ops = Append(@, Op("pushFileStream", <<>>, remotePath, file.id, adb, "inflight")), !.pc = pc]

\* the promise of the last call settles
Settled(rec, st) == [rec EXCEPT !.ops[Len(rec.ops)].st = st]

\* Rejects as it would be with a retry loop around the call: the rejected
\* call is sent again
RejectsRetries(rec, e) ==
  IF Len(rec.ops) >= 8 THEN Caught(Settled(rec, "failed"), e)
  ELSE [Settled(rec, "failed") EXCEPT !.ops = Append(@, [rec.ops[Len(rec.ops)] EXCEPT !.st = "inflight"])]

\* the awaited call rejects with e: the handler's catch takes it
Rejects(rec, e) == Caught(Settled(rec, "failed"), e)

newSession == CHOOSE s \in Sessions : sessions[s] = "none" /\ \A u \in 1..(s - 1) : sessions[u] # "none"

----------------------------------------------------------------------------
(* Connect and disconnect handlers                                         *)

\* what the connect handler's catch does to the connected flag
connectCatch == IF build = "direct" THEN FALSE ELSE connected

\* direct build: updateInstallAvailability() when the flag is conn and the slot adb
updateInstallAvailability(conn, adb) ==
  IF build = "direct" THEN ~(conn /\ adb # 0) ELSE installDisabled

ClickConnect(t) ==
  /\ CanClick(t)
  /\ tasks' = Becomes(t, [Start("connect") EXCEPT !.pc = "requestDevice"])
  /\ clicks' = clicks + 1
  /\ UNCHANGED <<build, probe, currentAdb, connected, sessions, installDisabled>>

\* requestDevice(): the picker answers with a device, is cancelled, or fails
RequestDeviceSettles(t) ==
  /\ At(t, "connect", "requestDevice")
  /\ \/ /\ tasks' = Becomes(t, [tasks[t] EXCEPT !.pc = "deviceConnect"])
        /\ UNCHANGED <<connected, installDisabled>>
     \/ /\ tasks' = Becomes(t, Done(tasks[t]))
        /\ UNCHANGED <<connected, installDisabled>>
     \/ /\ \E e \in DeviceErrors : tasks' = Becomes(t, Caught(tasks[t], e))
        /\ connected' = connectCatch
        /\ installDisabled' = updateInstallAvailability(connectCatch, currentAdb)
  /\ UNCHANGED <<build, probe, currentAdb, sessions, clicks>>

\* DeviceConnectSettles as it would be if onAuthPending were called before
\* device.connect() is awaited: it fires also when the link does not open
DeviceConnectSettlesPromptsFirst(t) ==
  /\ At(t, "connect", "deviceConnect")
  /\ \/ /\ tasks' = Becomes(t, [tasks[t] EXCEPT !.pc = "authenticate", !.authPending = tasks[t].authPending + 1])
        /\ UNCHANGED <<connected, installDisabled>>
     \/ /\ \E e \in DeviceErrors :
             tasks' = Becomes(t, Caught([tasks[t] EXCEPT !.authPending = tasks[t].authPending + 1], e))
        /\ connected' = connectCatch
        /\ installDisabled' = updateInstallAvailability(connectCatch, currentAdb)
  /\ UNCHANGED <<build, probe, currentAdb, sessions, clicks>>

\* connectToDevice: device.connect() settles; onAuthPending is called and
\* authentication starts
DeviceConnectSettles(t) ==
  /\ At(t, "connect", "deviceConnect")
  /\ \/ /\ tasks' = Becomes(t, [tasks[t] EXCEPT !.pc = "authenticate", !.authPending = tasks[t].authPending + 1])
        /\ UNCHANGED <<connected, installDisabled>>
     \/ /\ \E e \in DeviceErrors : tasks' = Becomes(t, Caught(tasks[t], e))
        /\ connected' = connectCatch
        /\ installDisabled' = updateInstallAvailability(connectCatch, currentAdb)
  /\ UNCHANGED <<build, probe, currentAdb, sessions, clicks>>

\* connectToDevice: authenticate settles; the new Adb goes into the slot, the
\* handler sets the flag and (main) asks the device for its model
AuthenticateSettles(t) ==
  /\ At(t, "connect", "authenticate")
  /\ \/ /\ currentAdb' = newSession
        /\ sessions' = [sessions EXCEPT ![newSession] = "open"]
        /\ connected' = TRUE
        /\ installDisabled' = updateInstallAvailability(TRUE, newSession)
        /\ tasks' = Becomes(t,
             IF build = "main"
               THEN shell(tasks[t], newSession, GetpropModel, <<>>, "getprop1")
               ELSE Done(tasks[t]))
     \/ /\ \E e \in DeviceErrors : tasks' = Becomes(t, Caught(tasks[t], e))
        /\ connected' = connectCatch
        /\ installDisabled' = updateInstallAvailability(connectCatch, currentAdb)
        /\ UNCHANGED <<currentAdb, sessions>>
  /\ UNCHANGED <<build, probe, clicks>>

\* main.ts connect handler: the first getprop settles, the second is sent
GetpropModelSettles(t) ==
  /\ At(t, "connect", "getprop1")
  /\ \/ tasks' = Becomes(t,
             shell(Settled(tasks[t], "ok"), currentAdb, GetpropManufacturer, <<>>, "getprop2"))
     \/ \E e \in DeviceErrors : tasks' = Becomes(t, Rejects(tasks[t], e))
  /\ UNCHANGED <<build, probe, currentAdb, connected, sessions, clicks, installDisabled>>

GetpropManufacturerSettles(t) ==
  /\ At(t, "connect", "getprop2")
  /\ \/ tasks' = Becomes(t, Done(Settled(tasks[t], "ok")))
     \/ \E e \in DeviceErrors : tasks' = Becomes(t, Rejects(tasks[t], e))
  /\ UNCHANGED <<build, probe, currentAdb, connected, sessions, clicks, installDisabled>>

\* disconnect handler: disconnect() empties the slot and closes what was in it
ClickDisconnect(t) ==
  /\ CanClick(t)
  /\ clicks' = clicks + 1
  /\ currentAdb' = 0
  /\ IF currentAdb # 0
       THEN /\ sessions' = [sessions EXCEPT ![currentAdb] = "closing"]
            /\ tasks' = Becomes(t, [Start("disconnect") EXCEPT !.pc = "closing", !.adb = currentAdb])
            /\ UNCHANGED <<connected, installDisabled>>
       ELSE /\ connected' = FALSE
            /\ installDisabled' = updateInstallAvailability(FALSE, 0)
            /\ tasks' = Becomes(t, Done(Start("disconnect")))
            /\ UNCHANGED sessions
  /\ UNCHANGED <<build, probe>>

\* adb.close() settles; a rejection is swallowed by disconnect's empty catch
CloseSettles(t) ==
  /\ At(t, "disconnect", "closing")
  /\ \E st \in {"closed", "closeFailed"} :
       sessions' = [sessions EXCEPT ![tasks[t].adb] = st]
  /\ connected' = FALSE
  /\ installDisabled' = updateInstallAvailability(FALSE, currentAdb)
  /\ tasks' = Becomes(t, Done(tasks[t]))
  /\ UNCHANGED <<build, probe, currentAdb, clicks>>

----------------------------------------------------------------------------
(* installApkFile and the install handlers                                 *)

\* ensureConnected() as it would be without the getCurrentAdb() test
notConnectedFlagOnly == ~connected

\* ensureConnected() throws
notConnected == ~connected \/ currentAdb = 0

\* remoteApkPath as it would be with the file name as it stands
remoteApkPathUnsanitized(now, name) == sTmpDir \o itoa(now) \o <<"_">> \o name

remoteApkPath(now, name) == sTmpDir \o itoa(now) \o <<"_">> \o sanitize(name)

\* installApkFile as it would be without the await on pushFileStream: the
\* install command is sent while the push is in flight
installApkFileNoAwait(rec, apkFile, now) ==
  IF notConnected THEN Caught(rec, ErrNotConnected)
  ELSE shell(pushFileStream([rec EXCEPT !.remoteApk = remoteApkPath(now, apkFile.name)], currentAdb,
                            remoteApkPath(now, apkFile.name), apkFile, "push"),
             currentAdb, PmInstall, remoteApkPath(now, apkFile.name), "pm")

\* installApkFile up to its first await: the session check, the temp path,
\* the push
installApkFile(rec, apkFile, now) ==
  IF notConnected THEN Caught(rec, ErrNotConnected)
  ELSE LET remoteApk == remoteApkPath(now, apkFile.name)
       IN pushFileStream([rec EXCEPT !.remoteApk = remoteApk], currentAdb, remoteApk, apkFile, "push")

\* the outcome line of installApkFile
outcome(out) == IF includes(toLowerCase(out), sSuccess) THEN "success" ELSE "mayfail"

InstallKinds == {"install", "installBundle"}

\* main.ts install handler
ClickInstall(t) ==
  /\ build = "main"
  /\ CanClick(t)
  /\ clicks' = clicks + 1
  /\ \E apk \in ApkInputs, now \in Timestamps :
       tasks' = Becomes(t,
         IF apk = NoFile THEN Caught(StartInstall("install", FALSE), ErrPickApk)
         ELSE installApkFile(StartInstall("install", TRUE), apk, now))
  /\ UNCHANGED <<build, probe, currentAdb, connected, sessions, installDisabled>>

\* PushSettles as it would be if a failed push tore the session down: the
\* slot is emptied when the push rejects
PushSettlesTearsDown(t) ==
  /\ tasks[t].kind \in InstallKinds /\ tasks[t].pc = "push"
  /\ \/ /\ tasks' = Becomes(t,
                shell(Settled(tasks[t], "ok"), currentAdb, PmInstall, tasks[t].remoteApk, "pm"))
        /\ UNCHANGED currentAdb
     \/ /\ \E e \in DeviceErrors : tasks' = Becomes(t, Rejects(tasks[t], e))
        /\ currentAdb' = 0
  /\ UNCHANGED <<build, probe, connected, sessions, clicks, installDisabled>>

\* the push of the package settles; "pm install -r" is sent
PushSettles(t) ==
  /\ tasks[t].kind \in InstallKinds /\ tasks[t].pc = "push"
  /\ \/ tasks' = Becomes(t,
             shell(Settled(tasks[t], "ok"), currentAdb, PmInstall, tasks[t].remoteApk, "pm"))
     \/ \E e \in DeviceErrors : tasks' = Becomes(t, Rejects(tasks[t], e))
  /\ UNCHANGED <<build, probe, currentAdb, connected, sessions, clicks, installDisabled>>

obbDirOf(info) == sObbRoot \o info.packageName

\* afterInstallApkFile as it would be if the outcome gated the handler: an
\* output without the success token is thrown as an error
afterInstallApkFileStrict(rec) ==
  IF rec.report = "mayfail" THEN Caught(rec, Error(Msg("APK install failed.", <<>>)))
  ELSE IF rec.kind = "installBundle"
    THEN shell(rec, currentAdb, MkdirParents, obbDirOf(rec.info), "mkdir")
    ELSE Done(rec)

\* what follows installApkFile in the handler that called it
afterInstallApkFile(rec) ==
  IF rec.kind = "installBundle"
    THEN shell(rec, currentAdb, MkdirParents, obbDirOf(rec.info), "mkdir")
    ELSE Done(rec)

\* PmSettles as it would be if the cleanup were only done after a successful
\* install: without the success token installApkFile returns at once
PmSettlesSkipsCleanup(t) ==
  /\ tasks[t].kind \in InstallKinds /\ tasks[t].pc = "pm"
  /\ \/ \E out \in PmOutputs : tasks' = Becomes(t,
             IF outcome(out) = "success"
               THEN shell([Settled(tasks[t], "ok") EXCEPT !.out = out], currentAdb, RmForce, tasks[t].remoteApk, "rm")
               ELSE afterInstallApkFile([Settled(tasks[t], "ok") EXCEPT !.out = out, !.report = "mayfail"]))
     \/ \E e \in DeviceErrors : tasks' = Becomes(t, Rejects(tasks[t], e))
  /\ UNCHANGED <<build, probe, currentAdb, connected, sessions, clicks, installDisabled>>

\* PmSettles as it would be with the cleanup in a finally block: "rm -f" is
\* sent also when "pm install -r" raised an error
PmSettlesCleansUpOnError(t) ==
  /\ tasks[t].kind \in InstallKinds /\ tasks[t].pc = "pm"
  /\ \/ \E out \in PmOutputs : tasks' = Becomes(t,
             shell([Settled(tasks[t], "ok") EXCEPT !.out = out], currentAdb, RmForce, tasks[t].remoteApk, "rm"))
     \/ tasks' = Becomes(t, shell(Settled(tasks[t], "failed"), currentAdb, RmForce, tasks[t].remoteApk, "rm"))
  /\ UNCHANGED <<build, probe, currentAdb, connected, sessions, clicks, installDisabled>>

\* "pm install -r" returns its output; "rm -f" is sent
PmSettles(t) ==
  /\ tasks[t].kind \in InstallKinds /\ tasks[t].pc = "pm"
  /\ \/ \E out \in PmOutputs : tasks' = Becomes(t,
             shell([Settled(tasks[t], "ok") EXCEPT !.out = out], currentAdb, RmForce, tasks[t].remoteApk, "rm"))
     \/ \E e \in DeviceErrors : tasks' = Becomes(t, Rejects(tasks[t], e))
  /\ UNCHANGED <<build, probe, currentAdb, connected, sessions, clicks, installDisabled>>

\* "rm -f" settles; installApkFile logs the outcome line and returns
RmSettles(t) ==
  /\ tasks[t].kind \in InstallKinds /\ tasks[t].pc = "rm"
  /\ \/ tasks' = Becomes(t,
             afterInstallApkFile([Settled(tasks[t], "ok") EXCEPT !.report = outcome(tasks[t].out)]))
     \/ \E e \in DeviceErrors : tasks' = Becomes(t, Rejects(tasks[t], e))
  /\ UNCHANGED <<build, probe, currentAdb, connected, sessions, clicks, installDisabled>>

----------------------------------------------------------------------------
(* installBundle (main.ts)                                                 *)

remoteObbPath(info, path) == obbDirOf(info) \o <<"/">> \o basename(path)

\* installBundle between the manifest text and installApkFile: parse, then
\* resolve the package and every auxiliary path; the result is either the
\* error thrown or the locals info, apkFile and obbFiles

NotPrepared(e) == [ok |-> FALSE, error |-> e, info |-> NoInfo, apkFile |-> NoFile, obbFiles |-> <<>>]

resolveObbs(map, obbPaths) ==
  [k \in 1..Len(obbPaths) |-> [path |-> obbPaths[k], file |-> findFileByPathOrSuffix(map, obbPaths[k])]]

\* resolved as it would be if the auxiliary paths were only looked at when
\* their turn to be pushed comes
resolvedPackageOnly(info, apkFile, obbFiles) ==
  IF apkFile = NoFile THEN NotPrepared(ErrLocateApk(info.apkPath))
  ELSE [ok |-> TRUE, error |-> NoError, info |-> info, apkFile |-> apkFile, obbFiles |-> obbFiles]

resolved(info, apkFile, obbFiles) ==
  LET Missing(o) == o.file = NoFile
  IN IF apkFile = NoFile THEN NotPrepared(ErrLocateApk(info.apkPath))
     ELSE IF FindIndex(obbFiles, Missing) > 0
       THEN NotPrepared(ErrLocateObb(obbFiles[FindIndex(obbFiles, Missing)].path))
     ELSE [ok |-> TRUE, error |-> NoError, info |-> info, apkFile |-> apkFile, obbFiles |-> obbFiles]

resolveParsed(map, parsed) ==
  IF ~parsed.ok THEN NotPrepared(parsed.error)
  ELSE resolved(parsed.info, findFileByPathOrSuffix(map, parsed.info.apkPath),
                resolveObbs(map, parsed.info.obbPaths))

prepareBundle(map, text) == resolveParsed(map, parseReleaseManifest(text))

\* the bundle handler once the picked folder is there
startBundle(rec, map, manifestFile) ==
  IF notConnected THEN Caught(rec, ErrNotConnected)
  ELSE IF manifestFile = NoFile THEN Caught(rec, ErrMissingManifest)
  ELSE [rec EXCEPT !.map = map, !.manifestFile = manifestFile, !.pc = "readManifest"]

\* the bundle handler once the manifest is prepared
installPrepared(rec, prep, now) ==
  IF ~prep.ok THEN Caught(rec, prep.error)
  ELSE installApkFile([rec EXCEPT !.info = prep.info, !.obbFiles = prep.obbFiles], prep.apkFile, now)

\* main.ts installBundle handler, up to manifestFile.text()
ClickInstallBundle(t) ==
  /\ build = "main"
  /\ CanClick(t)
  /\ clicks' = clicks + 1
  /\ \E files \in BundleInputs :
       tasks' = Becomes(t,
         IF files = <<>> THEN Caught(StartInstall("installBundle", FALSE), ErrPickBundle)
         ELSE startBundle(StartInstall("installBundle", TRUE), buildBundleFileMap(files),
                          findManifestFile(buildBundleFileMap(files))))
  /\ UNCHANGED <<build, probe, currentAdb, connected, sessions, installDisabled>>

\* manifestFile.text() settles: parse, resolve, then installApkFile
ManifestTextSettles(t) ==
  /\ At(t, "installBundle", "readManifest")
  /\ \/ \E now \in Timestamps :
          tasks' = Becomes(t,
            installPrepared(tasks[t], prepareBundle(tasks[t].map, fileText(tasks[t].manifestFile)), now))
     \/ \E e \in DeviceErrors : tasks' = Becomes(t, Caught(tasks[t], e))
  /\ UNCHANGED <<build, probe, currentAdb, connected, sessions, clicks, installDisabled>>

\* pushObb as it would be with the list walked from its end
pushObbReversed(rec, k) ==
  pushFileStream([rec EXCEPT !.i = k], currentAdb,
                 remoteObbPath(rec.info, rec.obbFiles[Len(rec.obbFiles) + 1 - k].path),
                 rec.obbFiles[Len(rec.obbFiles) + 1 - k].file, "obb")

\* pushes obbFiles[k]
pushObb(rec, k) ==
  pushFileStream([rec EXCEPT !.i = k], currentAdb,
                 remoteObbPath(rec.info, rec.obbFiles[k].path), rec.obbFiles[k].file, "obb")

\* MkdirSettles as it would be if a failure of "mkdir -p" were swallowed: the
\* first auxiliary file is pushed all the same
MkdirSettlesSwallowsFailure(t) ==
  /\ At(t, "installBundle", "mkdir")
  /\ \/ tasks' = Becomes(t, pushObb(Settled(tasks[t], "ok"), 1))
     \/ tasks' = Becomes(t, pushObb(Settled(tasks[t], "failed"), 1))
  /\ UNCHANGED <<build, probe, currentAdb, connected, sessions, clicks, installDisabled>>

\* "mkdir -p" settles; the first auxiliary file is pushed
MkdirSettles(t) ==
  /\ At(t, "installBundle", "mkdir")
  /\ \/ tasks' = Becomes(t, pushObb(Settled(tasks[t], "ok"), 1))
     \/ \E e \in DeviceErrors : tasks' = Becomes(t, Rejects(tasks[t], e))
  /\ UNCHANGED <<build, probe, currentAdb, connected, sessions, clicks, installDisabled>>

\* the push of an auxiliary file settles; the next one is pushed, or the
\* bundle install is complete
ObbPushSettles(t) ==
  /\ At(t, "installBundle", "obb")
  /\ \/ tasks' = Becomes(t,
             IF tasks[t].i < Len(tasks[t].obbFiles) THEN pushObb(Settled(tasks[t], "ok"), tasks[t].i + 1)
             ELSE Done(Settled(tasks[t], "ok")))
     \/ \E e \in DeviceErrors : tasks' = Becomes(t, Rejects(tasks[t], e))
  /\ UNCHANGED <<build, probe, currentAdb, connected, sessions, clicks, installDisabled>>

----------------------------------------------------------------------------
(* Direct-download install handler                                         *)

\* installBtn.onclick up to the fetch of downloadApkDirect
ClickInstallDirect(t) ==
  /\ build = "direct"
  /\ ~installDisabled
  /\ CanClick(t)
  /\ clicks' = clicks + 1
  /\ tasks' = Becomes(t,
       IF notConnected THEN Caught(StartInstall("install", TRUE), ErrNotConnected)
       ELSE [StartInstall("install", TRUE) EXCEPT !.pc = "download"])
  /\ UNCHANGED <<build, probe, currentAdb, connected, sessions, installDisabled>>

\* fetch(APK_DOWNLOAD_URL) settles: fetchLatestRoqApk checks the status and
\* asks for the body
DownloadSettles(t) ==
  /\ At(t, "install", "download")
  /\ \/ \E status \in HttpStatuses : tasks' = Becomes(t,
             IF status \in 200..299 THEN [tasks[t] EXCEPT !.pc = "blob"]
             ELSE Caught(tasks[t], ErrDownload(status)))
     \/ \E e \in DeviceErrors : tasks' = Becomes(t, Caught(tasks[t], e))
  /\ UNCHANGED <<build, probe, currentAdb, connected, sessions, clicks, installDisabled>>

\* apkResponse.blob() settles: the File is made and installApkFile starts
BlobSettles(t) ==
  /\ At(t, "install", "blob")
  /\ \/ \E now \in Timestamps : tasks' = Becomes(t,
             installApkFile(tasks[t], File(10, APK_FILE_NAME, <<>>), now))
     \/ \E e \in DeviceErrors : tasks' = Becomes(t, Caught(tasks[t], e))
  /\ UNCHANGED <<build, probe, currentAdb, connected, sessions, clicks, installDisabled>>

----------------------------------------------------------------------------
(* Specification                                                           *)

\* the page once loaded: nothing connected, no handler running
Loaded ==
  /\ currentAdb = 0
  /\ connected = FALSE
  /\ sessions = [s \in Sessions |-> "none"]
  /\ tasks = [t \in Tasks |-> IdleTask]
  /\ clicks = 0
  /\ installDisabled = (build = "direct")

Init ==
  /\ build \in Builds
  /\ Loaded
  /\ probe = NoProbe

Next ==
  \E t \in Tasks :
    \/ ClickConnect(t)
    \/ RequestDeviceSettles(t)
    \/ DeviceConnectSettles(t)
    \/ AuthenticateSettles(t)
    \/ GetpropModelSettles(t)
    \/ GetpropManufacturerSettles(t)
    \/ ClickDisconnect(t)
    \/ CloseSettles(t)
    \/ ClickInstall(t)
    \/ ClickInstallBundle(t)
    \/ ClickInstallDirect(t)
    \/ ManifestTextSettles(t)
    \/ DownloadSettles(t)
    \/ BlobSettles(t)
    \/ PushSettles(t)
    \/ PmSettles(t)
    \/ RmSettles(t)
    \/ MkdirSettles(t)
    \/ ObbPushSettles(t)

Spec == Init /\ [][Next]_vars

----------------------------------------------------------------------------
(* Release resolver: fetchLatestRoqApk of the build that reads the GitHub  *)
(* release feed (part_002 373-423).  probe is one invocation of it: the    *)
(* feed it reads, where it is, what it has chosen.                         *)

\* a JSON value that is a string, and a field that is absent
JString(s) == [type |-> "string", v |-> s]

JUndefined == [type |-> "undefined", v |-> <<>>]

sRoqApk == <<"r","o","q",".","a","p","k">>   \* "roq.apk"

sRoqApkUpper == <<"R","O","Q",".","A","P","K">>   \* "ROQ.APK"

sNotesTxt == <<"n","o","t","e","s",".","t","x","t">>   \* "notes.txt"

\* an asset of the release tagged tag
Asset(name, tag) == [name |-> JString(name), browser_download_url |-> JString(<<tag, "/">> \o name)]

AssetWithoutUrl(name) == [name |-> JString(name), browser_download_url |-> JUndefined]

\* the asset lists a release of the feed can carry
AssetLists(tag) ==
  { <<>>,
    <<Asset(sRoqApk, tag)>>,
    <<Asset(sNotesTxt, tag), Asset(sRoqApkUpper, tag)>>,
    <<AssetWithoutUrl(sRoqApk)>>,
    <<Asset(sNotesTxt, tag)>> }

\* the releases the feed can carry under a tag
Releases(tag) == [tag_name : {tag}, draft : BOOLEAN, prerelease : BOOLEAN, assets : AssetLists(tag)]

\* the bodies the full-list endpoint can answer with: an array of at most
\* two releases, or something that is not an array
ReleaseLists ==
  {[isArray |-> FALSE, items |-> <<>>], [isArray |-> TRUE, items |-> <<>>]}
  \cup {[isArray |-> TRUE, items |-> <<r>>] : r \in Releases("1")}
  \cup {[isArray |-> TRUE, items |-> <<r, q>>] : r \in Releases("1"), q \in Releases("2")}

NoRelease == [tag_name |-> "", draft |-> FALSE, prerelease |-> FALSE, assets |-> <<>>]

NoAsset == [name |-> JUndefined, browser_download_url |-> JUndefined]

ErrFetchReleases(status) ==
  Error(Msg("Could not fetch releases from GitHub (${response.status}).", <<itoa(status)>>))

ErrNoReleases == Error(Msg("No releases found for rookie-on-quest.", <<>>))

ErrNoApkAsset == Error(Msg("Latest release does not contain an APK asset.", <<>>))

\* the test of assets.find in fetchLatestRoqApk
isApkAsset(asset) ==
  /\ asset.name.type = "string"
  /\ endsWith(toLowerCase(asset.name.v), sApkExt)
  /\ asset.browser_download_url.type = "string"

\* assets.find(...): the first asset passing the test, NoAsset for undefined
findApkAsset(assets) ==
  IF \E i \in 1..Len(assets) : isApkAsset(assets[i])
    THEN assets[CHOOSE i \in 1..Len(assets) :
                  isApkAsset(assets[i]) /\ \A j \in 1..(i - 1) : ~isApkAsset(assets[j])]
    ELSE NoAsset

\* an invocation of fetchLatestRoqApk against a feed, at its first fetch
fetchLatestRoqApk(latest, list) ==
  [fn |-> "fetchLatestRoqApk", pc |-> "latest", latest |-> latest, list |-> list,
   latestOk |-> FALSE,      \* the latest endpoint answered with a success status
   listFetched |-> FALSE,   \* the full list was asked for
   listOk |-> FALSE,        \* the full list answered with a success status
   releaseData |-> NoRelease, apkAsset |-> NoAsset,
   file |-> NoFile, err |-> NoError]

\* fetchLatestRoqApk from releaseData on: the asset is looked up and its
\* download starts, or the lookup throws
withReleaseData(p, releaseData) ==
  IF findApkAsset(releaseData.assets) = NoAsset
    THEN [p EXCEPT !.pc = "failed", !.releaseData = releaseData, !.err = ErrNoApkAsset]
    ELSE [p EXCEPT !.pc = "download", !.releaseData = releaseData,
                   !.apkAsset = findApkAsset(releaseData.assets)]

\* the body of the full list has arrived
withReleases(p, releases) ==
  IF ~releases.isArray \/ Len(releases.items) = 0
    THEN [p EXCEPT !.pc = "failed", !.err = ErrNoReleases]
    ELSE withReleaseData(p, releases.items[1])

\* fetch(latestUrl) and, on a success status, response.json() settle
LatestSettles ==
  /\ probe.fn = "fetchLatestRoqApk" /\ probe.pc = "latest"
  /\ \/ \E status \in HttpStatuses :
          probe' = IF status \in 200..299
                     THEN withReleaseData([probe EXCEPT !.latestOk = TRUE], probe.latest)
                     ELSE [probe EXCEPT !.pc = "releases", !.listFetched = TRUE]
     \/ \E e \in DeviceErrors : probe' = [probe EXCEPT !.pc = "failed", !.err = e]
  /\ UNCHANGED <<build, currentAdb, connected, sessions, tasks, clicks, installDisabled>>

\* fetch(releasesUrl) and, on a success status, response.json() settle
ReleasesSettles ==
  /\ probe.fn = "fetchLatestRoqApk" /\ probe.pc = "releases"
  /\ \/ \E status \in HttpStatuses :
          probe' = IF status \in 200..299
                     THEN withReleases([probe EXCEPT !.listOk = TRUE], probe.list)
                     ELSE [probe EXCEPT !.pc = "failed", !.err = ErrFetchReleases(status)]
     \/ \E e \in DeviceErrors : probe' = [probe EXCEPT !.pc = "failed", !.err = e]
  /\ UNCHANGED <<build, currentAdb, connected, sessions, tasks, clicks, installDisabled>>

\* fetch(apkAsset.browser_download_url) settles
AssetSettles ==
  /\ probe.fn = "fetchLatestRoqApk" /\ probe.pc = "download"
  /\ \/ \E status \in HttpStatuses :
          probe' = IF status \in 200..299
                     THEN [probe EXCEPT !.pc = "blob"]
                     ELSE [probe EXCEPT !.pc = "failed", !.err = ErrDownload(status)]
     \/ \E e \in DeviceErrors : probe' = [probe EXCEPT !.pc = "failed", !.err = e]
  /\ UNCHANGED <<build, currentAdb, connected, sessions, tasks, clicks, installDisabled>>

\* apkResponse.blob() settles: the File named after the asset is returned
AssetBlobSettles ==
  /\ probe.fn = "fetchLatestRoqApk" /\ probe.pc = "blob"
  /\ \/ probe' = [probe EXCEPT !.pc = "done", !.file = File(10, probe.apkAsset.name.v, <<>>)]
     \/ \E e \in DeviceErrors : probe' = [probe EXCEPT !.pc = "failed", !.err = e]
  /\ UNCHANGED <<build, currentAdb, connected, sessions, tasks, clicks, installDisabled>>

ReleaseInit ==
  /\ build = "direct"
  /\ Loaded
  /\ probe \in {fetchLatestRoqApk(latest, list) : latest \in Releases("0"), list \in ReleaseLists}

ReleaseNext ==
  \/ LatestSettles
  \/ ReleasesSettles
  \/ AssetSettles
  \/ AssetBlobSettles

ReleaseSpec == ReleaseInit /\ [][ReleaseNext]_vars

----------------------------------------------------------------------------
(* Manifest parser on its own: parseReleaseManifest applied to manifest    *)
(* texts put together from header, row, marker and file-list lines.        *)

\* longest file list of a manifest text
MaxEntries == 3

\* the line with the column names: as in scenario 1; with a leading column
\* and padded names; absent; naming both columns in one field
HeaderLines ==
  { <<<<"P","a","c","k","a","g","e"," ","N","a","m","e",";","V","e","r","s","i","o","n"," ","C","o","d","e">>>>,
    <<<<"N","a","m","e",";"," ","P","a","c","k","a","g","e"," ","N","a","m","e"," ",";","V","e","r","s","i","o","n"," ","C","o","d","e">>>>,
    <<>>,
    <<<<"P","a","c","k","a","g","e"," ","N","a","m","e"," ","a","n","d"," ","V","e","r","s","i","o","n"," ","C","o","d","e",";","x">>>> }

\* the line with the values: as in scenario 1; no package name; one field
\* only; absent
RowLines ==
  { <<<<"c","o","m",".","e","x","a","m","p","l","e",".","a","p","p",";","4","2">>>>,
    <<<<" ",";","4","2">>>>,
    <<<<"c","o","m",".","e","x","a","m","p","l","e",".","a","p","p">>>>,
    <<>> }

MarkerLines == { <<sFilelist>>, <<<<"#","F","i","l","e","L","i","s","t">>>>, <<>> }

EntryLines ==
  { <<"f",";","g","a","m","e",".","a","p","k",";","1","0","0">>,
    <<"f",";","m","a","i","n",".","1",".","o","b","b",";","2","0","0">>,
    <<"d",";","x",".","a","p","k",";","0">>,
    <<"f",";",".","/","G","a","m","e",".","A","P","K">>,
    <<"f",";"," ","/","d","a","t","a","/","p","a","t","c","h",".","O","B","B"," ",";","3">>,
    <<"f",";",".","/","/","b",".","a","p","k",";",";">>,
    <<"f",";","r","e","a","d","m","e",".","t","x","t",";","1">> }

EntryLists == UNION {[1..n -> EntryLines] : n \in 0..MaxEntries}

\* the lines, each ended by the line separator nl
RECURSIVE joinLines(_, _)
joinLines(lines, nl) ==
  IF lines = <<>> THEN <<>> ELSE Head(lines) \o nl \o joinLines(Tail(lines), nl)

ManifestTexts ==
  { joinLines(h \o r \o m \o es, nl) :
      h \in HeaderLines, r \in RowLines, m \in MarkerLines, es \in EntryLists,
      nl \in { <<"\n">>, <<"\r", "\n">> } }

\* parseReleaseManifest is called with the text, and returns or throws
ParseManifest ==
  /\ probe.fn = "parseReleaseManifest" /\ probe.pc = "call"
  /\ probe' = [probe EXCEPT !.pc = "returned", !.result = parseReleaseManifest(probe.text)]
  /\ UNCHANGED <<build, currentAdb, connected, sessions, tasks, clicks, installDisabled>>

ParserInit ==
  /\ build = "main"
  /\ Loaded
  /\ probe \in {[fn |-> "parseReleaseManifest", pc |-> "call", text |-> text, result |-> Threw(NoError)] :
                  text \in ManifestTexts \cup {manifestOne, manifestTwo, manifestBad}}

ParserNext == ParseManifest

ParserSpec == ParserInit /\ [][ParserNext]_vars

----------------------------------------------------------------------------
(* Bundle file resolver on its own: buildBundleFileMap over a picked       *)
(* folder, then findFileByPathOrSuffix for a manifest path, twice.         *)

\* most files in a picked folder
MaxFiles == 3

\* the files a folder can hold: at the top, one level deeper, with a
\* backslash in its name, picked without a folder, and a package
fTopObb == File(21, <<"m","a","i","n",".","o","b","b">>, <<"G","/","m","a","i","n",".","o","b","b">>)

fDeepObb == File(22, <<"m","a","i","n",".","o","b","b">>, <<"G","/","d","a","t","a","/","m","a","i","n",".","o","b","b">>)

fBackslashObb == File(23, <<"x","\\","m","a","i","n",".","o","b","b">>, <<"G","/","x","\\","m","a","i","n",".","o","b","b">>)

fBareObb == File(24, <<"m","a","i","n",".","o","b","b">>, <<>>)

fTopApk == File(25, <<"g","a","m","e",".","a","p","k">>, <<"G","/","g","a","m","e",".","a","p","k">>)

FolderFiles == {fTopObb, fDeepObb, fBackslashObb, fBareObb, fTopApk}

Folders == UNION {[1..n -> FolderFiles] : n \in 0..MaxFiles}

ManifestPaths ==
  { <<"m","a","i","n",".","o","b","b">>,
    <<"d","a","t","a","/","m","a","i","n",".","o","b","b">>,
    <<"d","a","t","a","\\","m","a","i","n",".","o","b","b">>,
    <<"x","/","m","a","i","n",".","o","b","b">>,
    <<"p","a","t","c","h",".","o","b","b">>,
    <<"G","/","g","a","m","e",".","a","p","k">> }

\* buildBundleFileMap(files) returns
BuildMap ==
  /\ probe.fn = "findFileByPathOrSuffix" /\ probe.pc = "build"
  /\ probe' = [probe EXCEPT !.pc = "resolve", !.map = buildBundleFileMap(probe.files)]
  /\ UNCHANGED <<build, currentAdb, connected, sessions, tasks, clicks, installDisabled>>

\* findFileByPathOrSuffix(map, manifestPath) returns
Resolve ==
  /\ probe.fn = "findFileByPathOrSuffix" /\ probe.pc = "resolve"
  /\ probe' = [probe EXCEPT !.pc = "again", !.first = findFileByPathOrSuffix(probe.map, probe.manifestPath)]
  /\ UNCHANGED <<build, currentAdb, connected, sessions, tasks, clicks, installDisabled>>

\* the same call once more
ResolveAgain ==
  /\ probe.fn = "findFileByPathOrSuffix" /\ probe.pc = "again"
  /\ probe' = [probe EXCEPT !.pc = "returned", !.second = findFileByPathOrSuffix(probe.map, probe.manifestPath)]
  /\ UNCHANGED <<build, currentAdb, connected, sessions, tasks, clicks, installDisabled>>

ResolverInit ==
  /\ build = "main"
  /\ Loaded
  /\ probe \in {[fn |-> "findFileByPathOrSuffix", pc |-> "build", files |-> files,
                 manifestPath |-> p, map |-> <<>>, first |-> NoFile, second |-> NoFile] :
                  files \in Folders, p \in ManifestPaths}

ResolverNext ==
  \/ BuildMap
  \/ Resolve
  \/ ResolveAgain

ResolverSpec == ResolverInit /\ [][ResolverNext]_vars

----------------------------------------------------------------------------
(* Progress reporter on its own: one closure returned by makePercentLogger *)
(* (main.ts 128-138), fed either by the pull loop of pushFileStream        *)
(* (part_000 85-100) or with any sequence of (sent, total).                *)

\* longest sequence of callbacks fed directly
MaxCalls == 3

\* file.size of the file pushed, in bytes
FileSizes == {0, 3, 50}

\* value.byteLength of the chunks the file's reader hands out
ChunkSizes == {3, 21, 29}

\* the arguments of a callback fed directly
SentValues == {0, 1, 2, 3, 4, 27, 29, 31, 32, 49, 50, 51}

TotalValues == {0 - 1} \cup FileSizes

\* the pairs (sent, total) of the inputs for which (sent / total) * 100, in
\* IEEE doubles, falls just short of the exact quotient: (29 / 50) * 100 is
\* 57.99999999999999
FloatShort == {<<29, 50>>}

\* Math.floor((sent / total) * 100), total > 0
percent(sent, total) ==
  IF <<sent, total>> \in FloatShort THEN ((100 * sent) \div total) - 1 ELSE (100 * sent) \div total

\* the closure as it would be with the test pct >= last + 1
onProgressEveryPoint(p, sent, total) ==
  IF total <= 0 THEN [p EXCEPT !.calls = p.calls + 1]
  ELSE IF percent(sent, total) >= 100 \/ percent(sent, total) >= p.last + 1
    THEN [p EXCEPT !.calls = p.calls + 1,
                   !.atHundred = p.atHundred + (IF percent(sent, total) >= 100 THEN 1 ELSE 0),
                   !.last = percent(sent, total),
                   !.lines = Append(p.lines, percent(sent, total))]
    ELSE [p EXCEPT !.calls = p.calls + 1,
                   !.atHundred = p.atHundred + (IF percent(sent, total) >= 100 THEN 1 ELSE 0)]

\* the closure returned by makePercentLogger, called with (sent, total);
\* lines are the percentages of the lines logged, calls and atHundred count
\* the callbacks and those of them at 100 percent or more
onProgress(p, sent, total) ==
  IF total <= 0 THEN [p EXCEPT !.calls = p.calls + 1]
  ELSE IF percent(sent, total) >= 100 \/ percent(sent, total) >= p.last + 5
    THEN [p EXCEPT !.calls = p.calls + 1,
                   !.atHundred = p.atHundred + (IF percent(sent, total) >= 100 THEN 1 ELSE 0),
                   !.last = percent(sent, total),
                   !.lines = Append(p.lines, percent(sent, total))]
    ELSE [p EXCEPT !.calls = p.calls + 1,
                   !.atHundred = p.atHundred + (IF percent(sent, total) >= 100 THEN 1 ELSE 0)]

\* makePercentLogger(prefix): let last = -1; feed says who calls the closure,
\* total and sent are the locals of pushFileStream
makePercentLogger(feed, total) ==
  [fn |-> "makePercentLogger", feed |-> feed, total |-> total, sent |-> 0, done |-> FALSE,
   last |-> 0 - 1, lines |-> <<>>, calls |-> 0, atHundred |-> 0, nonPositive |-> FALSE]

\* pushFileStream, pull: src.read() hands out a chunk
Pull ==
  /\ probe.fn = "makePercentLogger" /\ probe.feed = "pull" /\ ~probe.done
  /\ \E n \in ChunkSizes :
       /\ probe.sent + n <= probe.total
       /\ probe' = onProgress([probe EXCEPT !.sent = probe.sent + n], probe.sent + n, probe.total)
  /\ UNCHANGED <<build, currentAdb, connected, sessions, tasks, clicks, installDisabled>>

\* pushFileStream, pull: src.read() reports the end of the file
PullDone ==
  /\ probe.fn = "makePercentLogger" /\ probe.feed = "pull" /\ ~probe.done
  /\ probe.sent = probe.total
  /\ probe' = [probe EXCEPT !.done = TRUE]
  /\ UNCHANGED <<build, currentAdb, connected, sessions, tasks, clicks, installDisabled>>

\* the closure is called with any (sent, total)
Progress ==
  /\ probe.fn = "makePercentLogger" /\ probe.feed = "any" /\ probe.calls < MaxCalls
  /\ \E sent \in SentValues, total \in TotalValues :
       probe' = [onProgress(probe, sent, total) EXCEPT
                   !.nonPositive = probe.nonPositive
                                   \/ (total <= 0 /\ onProgress(probe, sent, total).lines # probe.lines)]
  /\ UNCHANGED <<build, currentAdb, connected, sessions, tasks, clicks, installDisabled>>

ProgressInit ==
  /\ build = "main"
  /\ Loaded
  /\ probe \in {makePercentLogger("pull", size) : size \in FileSizes} \cup {makePercentLogger("any", 0)}

ProgressNext ==
  \/ Pull
  \/ PullDone
  \/ Progress

ProgressSpec == ProgressInit /\ [][ProgressNext]_vars

----------------------------------------------------------------------------
(* Properties                                                              *)

\* an install attempt: an invocation of one of the install handlers
InstallTask(rec) == rec.kind \in InstallKinds /\ rec.pc # "idle"

IsPush(o, path) == o.call = "pushFileStream" /\ o.path = path

IsShell(o, cmd, path) == o.call = "shell" /\ o.cmd = cmd /\ o.path = path

\* the first n calls of the attempt have returned
PrefixOk(rec, n) == \A k \in 1..n : k <= Len(rec.ops) /\ rec.ops[k].st = "ok"

InFlight(rec) == {k \in DOMAIN rec.ops : rec.ops[k].st = "inflight"}

\* the calls of the attempt that ended in an error
Errored(rec) == {k \in DOMAIN rec.ops : rec.ops[k].st \in {"failed", "rejected"}}

\* the number of calls a complete run of the attempt's flow makes
FlowLength(rec) == IF rec.kind = "installBundle" THEN 4 + Len(rec.obbFiles) ELSE 3

C1_Order(rec) ==
  /\ Len(rec.ops) >= 1 => IsPush(rec.ops[1], rec.remoteApk)
  /\ Len(rec.ops) >= 2 => IsShell(rec.ops[2], PmInstall, rec.remoteApk) /\ rec.ops[1].st = "ok"
  /\ Len(rec.ops) >= 3 => IsShell(rec.ops[3], RmForce, rec.remoteApk) /\ rec.ops[2].st = "ok"
  /\ Cardinality(InFlight(rec)) <= 1

\* C1: in every install attempt the first call is the push of the package to
\* the temp path, the second "pm install -r" of that path, sent only once the
\* push has returned, the third "rm -f" of that path, sent only once the
\* install command has returned; at most one call of the attempt is in flight
C1_PushInstallDeleteSequential == \A t \in Tasks : InstallTask(tasks[t]) => C1_Order(tasks[t])

C1_Witness ==
  \E t \in Tasks : InstallTask(tasks[t]) /\ Len(tasks[t].ops) >= 3 /\ tasks[t].ops[3].st = "ok"

C2_Order(rec) ==
  /\ Len(rec.ops) >= 4 => PrefixOk(rec, 3) /\ IsShell(rec.ops[4], MkdirParents, obbDirOf(rec.info))
  /\ Len(rec.ops) <= FlowLength(rec)
  /\ Len(rec.obbFiles) = Len(rec.info.obbPaths)
  /\ \A k \in 1..Len(rec.obbFiles) :
       4 + k <= Len(rec.ops) =>
         /\ IsPush(rec.ops[4 + k], remoteObbPath(rec.info, rec.info.obbPaths[k]))
         /\ rec.ops[4 + k].file = rec.obbFiles[k].file.id
         /\ rec.obbFiles[k].path = rec.info.obbPaths[k]
         /\ rec.ops[3 + k].st = "ok"
  /\ Cardinality(InFlight(rec)) <= 1

\* the bundle whose folder lists patch.obb before data/main.obb while its
\* manifest declares data/main.obb first
C2_ManifestOrder(rec) ==
  rec.manifestFile = fManifestTwo /\ Len(rec.ops) >= 6 =>
    rec.ops[5].file = fDataObb.id /\ rec.ops[6].file = fPatchObb.id

\* C2: in a bundle install no auxiliary file is pushed before the push, the
\* install command and the delete command of the primary package have all
\* returned; the k-th auxiliary push is the k-th path of the manifest's file
\* list, and is sent only once the call before it has returned
C2_PrimaryThenAuxInManifestOrder ==
  \A t \in Tasks : tasks[t].kind = "installBundle" /\ tasks[t].ops # <<>> =>
    C2_Order(tasks[t]) /\ C2_ManifestOrder(tasks[t])

C2_Witness ==
  \E t \in Tasks : /\ tasks[t].kind = "installBundle" /\ tasks[t].pc = "done"
                   /\ tasks[t].manifestFile = fManifestTwo /\ Len(tasks[t].ops) = 6

\* the error an attempt started without a session ends with
C3_Error(rec) ==
  IF rec.picked THEN ErrNotConnected
  ELSE IF rec.kind = "installBundle" THEN ErrPickBundle ELSE ErrPickApk

\* C3 as stated: an install attempt started while the slot holds no session
\* has failed with the not-connected error and made no device call
C3_NotConnectedError ==
  \A t \in Tasks : InstallTask(tasks[t]) /\ tasks[t].startAdb = 0 =>
    tasks[t].pc = "failed" /\ tasks[t].ops = <<>> /\ tasks[t].err = ErrNotConnected

\* C3: an install attempt started while the slot holds no session has failed
\* within the click and made no device call; its error is the not-connected
\* error when a source was selected, and the pick-a-source error of the
\* handler when none was; the attempt does nothing afterwards
C3_NoSessionNoDeviceCall ==
  \A t \in Tasks : InstallTask(tasks[t]) /\ tasks[t].startAdb = 0 =>
    /\ tasks[t].pc = "failed" /\ tasks[t].at = "idle" /\ tasks[t].ops = <<>>
    /\ tasks[t].err = C3_Error(tasks[t])
    /\ tasks[t].errLine = logErr(C3_Error(tasks[t]))

C3_Witness ==
  \E t \in Tasks : /\ InstallTask(tasks[t]) /\ tasks[t].startAdb = 0 /\ tasks[t].picked
                   /\ tasks[t].startFlag /\ tasks[t].err = ErrNotConnected

\* C4: at most one session is live: a session that is open is the one in the
\* slot
C4_OneLiveSession == \A s \in Sessions : sessions[s] = "open" => currentAdb = s

\* the step in which invocation t's install command returns
PmReturns(t) ==
  /\ InstallTask(tasks[t]) /\ tasks[t].pc = "pm"
  /\ tasks'[t].ops[2].st = "ok"

\* C5: in the step in which "pm install -r" returns, whatever its output, the
\* handler calls shell with "rm -f" and the temp path of the push, as the
\* attempt's next call, on the session the slot holds; the call is refused
\* only when the slot is empty
C5_DeleteFollowsInstall ==
  [][\A t \in Tasks : PmReturns(t) =>
        /\ Len(tasks'[t].ops) = 3
        /\ IsShell(tasks'[t].ops[3], RmForce, tasks[t].ops[1].path)
        /\ tasks'[t].ops[3].sess = currentAdb
        /\ tasks'[t].ops[3].st = (IF currentAdb = 0 THEN "rejected" ELSE "inflight")]_vars

C5_Witness ==
  \E t \in Tasks : /\ InstallTask(tasks[t]) /\ Len(tasks[t].ops) = 3
                   /\ outcome(tasks[t].out) = "mayfail"
                   /\ tasks[t].ops[3].st = "inflight"
                   /\ IsShell(tasks[t].ops[3], RmForce, tasks[t].remoteApk)

\* C6: an attempt whose delete command failed is not Failed for it: it goes
\* on to the outcome line and, in a bundle, to the auxiliary steps
C6_CleanupFailureSwallowed ==
  \A t \in Tasks : InstallTask(tasks[t]) /\ Len(tasks[t].ops) = 3 /\ tasks[t].ops[3].st = "failed" =>
    tasks[t].pc # "failed" /\ tasks[t].report = outcome(tasks[t].out)

C7_Advisory(rec) ==
  /\ Len(rec.ops) >= 3 /\ IsShell(rec.ops[3], RmForce, rec.remoteApk)
  /\ rec.pc = "failed" => Errored(rec) = {Len(rec.ops)} /\ rec.err # NoError
  /\ rec.ops[3].st = "ok" => rec.report = "mayfail"
  /\ rec.ops[3].st = "ok" /\ rec.kind = "installBundle" => Len(rec.ops) >= 4
  /\ Errored(rec) = {} /\ InFlight(rec) = {} => rec.pc = "done" /\ Len(rec.ops) = FlowLength(rec)

\* C7: an attempt whose install command returned output without the token
\* "success" (any case) has the delete command as its next call; it is Failed
\* only if a call ended in an error, and that call is its last; once the
\* delete command has returned the "may have failed" line is the one logged
\* and a bundle goes on with its auxiliary steps; with every call returned
\* the attempt is Done, all its steps made
C7_SuccessDetectionAdvisory ==
  \A t \in Tasks :
    InstallTask(tasks[t]) /\ PrefixOk(tasks[t], 2) /\ outcome(tasks[t].out) = "mayfail" =>
      C7_Advisory(tasks[t])

C7_Witness ==
  \E t \in Tasks : /\ tasks[t].kind = "installBundle" /\ tasks[t].pc = "done"
                   /\ outcome(tasks[t].out) = "mayfail" /\ tasks[t].report = "mayfail"
                   /\ Len(tasks[t].ops) = 5

SameCall(o, p) == o.call = p.call /\ o.cmd = p.cmd /\ o.path = p.path /\ o.file = p.file

\* C8: no call of an attempt is made twice, and a call that ended in an error
\* is the attempt's last: the attempt is Failed and calls nothing more
C8_NoRetry ==
  \A t \in Tasks : InstallTask(tasks[t]) =>
    /\ \A j, k \in DOMAIN tasks[t].ops : SameCall(tasks[t].ops[j], tasks[t].ops[k]) => j = k
    /\ \A k \in Errored(tasks[t]) : k = Len(tasks[t].ops) /\ tasks[t].pc = "failed"

C8_Witness ==
  \E t \in Tasks : /\ tasks[t].kind = "installBundle" /\ tasks[t].pc = "failed"
                   /\ Len(tasks[t].ops) = 5 /\ tasks[t].ops[5].st = "failed"
                   /\ Len(tasks[t].obbFiles) = 2

\* the stages of source preparation
Preparing == {"idle", "readManifest", "download", "blob"}

\* what an attempt that is Done has behind it
C9_Done(rec) ==
  /\ rec.err = NoError /\ rec.errLine = NoLog
  /\ Len(rec.ops) = FlowLength(rec) /\ PrefixOk(rec, Len(rec.ops))
  /\ rec.report \in {"success", "mayfail"}

\* what an attempt that is Failed has behind it
C9_Failed(rec) ==
  /\ rec.err # NoError
  /\ Errored(rec) \subseteq {Len(rec.ops)} /\ InFlight(rec) = {}
  /\ \A k \in Errored(rec) :
       IF rec.ops[k].st = "rejected" THEN rec.err = ErrNoDevice ELSE rec.err \in DeviceErrors
  /\ rec.errLine.prefix = "(cross mark) "
  /\ rec.errLine.text = (IF rec.err.hasMessage THEN [prefix |-> "", msg |-> rec.err.message]
                                              ELSE rec.err.str)

\* an attempt that is neither Done nor Failed is waiting: for its source
\* while it has made no call, for its last call otherwise
C9_Waiting(rec) ==
  IF rec.ops = <<>> THEN rec.pc \in Preparing \ {"idle"}
  ELSE InFlight(rec) = {Len(rec.ops)} /\ rec.pc \notin Preparing

\* C9: an install attempt with no call in flight and its source prepared has
\* ended, Done or Failed; it is Done only with every step of its flow made
\* and returned and no error caught; it is Failed as soon as a call ends in
\* an error or a check throws, and the line logged carries the message of
\* the error caught, unchanged
C9_DoneOrFailed ==
  \A t \in Tasks : InstallTask(tasks[t]) =>
    /\ tasks[t].pc = "done" => C9_Done(tasks[t])
    /\ tasks[t].pc = "failed" => C9_Failed(tasks[t])
    /\ Errored(tasks[t]) # {} => tasks[t].pc = "failed"
    /\ ~Finished(tasks[t]) => C9_Waiting(tasks[t])

C9_Witness ==
  \E t \in Tasks : /\ tasks[t].kind = "installBundle" /\ tasks[t].pc = "failed"
                   /\ Len(tasks[t].ops) = 4 /\ tasks[t].ops[4].st = "failed"
                   /\ tasks[t].err = ErrDevice

\* C10: an attempt that failed while its source was being prepared made no
\* device call; a bundle install that made a device call has a manifest that
\* parsed and every auxiliary path of it resolved to a selected file, and
\* when the push of the package is its only call these are what the parser
\* and the resolver give for the manifest and the folder selected
C10_PreparationFailsBeforeDevice ==
  \A t \in Tasks : InstallTask(tasks[t]) =>
    /\ tasks[t].pc = "failed" /\ tasks[t].at \in Preparing => tasks[t].ops = <<>>
    /\ tasks[t].pc \in Preparing => tasks[t].ops = <<>>
    /\ tasks[t].kind = "installBundle" /\ tasks[t].ops # <<>> =>
         /\ tasks[t].info # NoInfo
         /\ Len(tasks[t].obbFiles) = Len(tasks[t].info.obbPaths)
         /\ \A k \in DOMAIN tasks[t].obbFiles : tasks[t].obbFiles[k].file # NoFile
    /\ tasks[t].kind = "installBundle" /\ Len(tasks[t].ops) = 1 =>
         /\ tasks[t].info = parseReleaseManifest(fileText(tasks[t].manifestFile)).info
         /\ \A k \in DOMAIN tasks[t].obbFiles :
              tasks[t].obbFiles[k].file = findFileByPathOrSuffix(tasks[t].map, tasks[t].info.obbPaths[k])

C10_Witness ==
  \E t \in Tasks : /\ tasks[t].kind = "installBundle" /\ tasks[t].pc = "failed"
                   /\ tasks[t].at = "readManifest" /\ tasks[t].startAdb # 0
                   /\ tasks[t].err.hasMessage
                   /\ tasks[t].err.message.template = "Could not locate OBB from manifest: ${obbPathRaw}"

\* a device operation of the invocation is under way: a call of shell or
\* pushFileStream in flight, or connectToDevice opening the link or
\* authenticating
Operating(rec) ==
  \/ InFlight(rec) # {}
  \/ rec.kind = "connect" /\ rec.pc \in {"deviceConnect", "authenticate"}

\* C11: at most one device operation (connect, push, command) is under way
\* at any time, whatever the interleaving of the handlers
C11_OneDeviceOperation ==
  \A t, u \in Tasks : Operating(tasks[t]) /\ Operating(tasks[u]) => t = u

\* the step in which install attempt t fails
Fails(t) ==
  /\ InstallTask(tasks'[t]) /\ tasks'[t].pc = "failed"
  /\ tasks'[t] # tasks[t]

\* C12: the step in which an install attempt fails, at whatever stage, leaves
\* the session slot, the sessions, the connected flag and the state of the
\* install button as they were, so that ensureConnected gives afterwards what
\* it gave before
C12_FailureLeavesSessionAsItWas ==
  [][\A t \in Tasks : Fails(t) =>
        /\ currentAdb' = currentAdb /\ connected' = connected
        /\ sessions' = sessions /\ installDisabled' = installDisabled
        /\ notConnected' = notConnected]_vars

C12_Witness ==
  \E t \in Tasks : /\ InstallTask(tasks[t]) /\ tasks[t].pc = "failed"
                   /\ Errored(tasks[t]) # {} /\ tasks[t].err \in DeviceErrors
                   /\ currentAdb # 0 /\ currentAdb = tasks[t].startAdb /\ connected

\* the last call of the attempt was sent to a session and rejected
TransportFailed(rec) ==
  rec.ops # <<>> /\ rec.ops[Len(rec.ops)].st = "failed"

\* C13: once a push or a command of an install attempt has failed on its
\* session, that session is no longer held: the slot is empty and
\* ensureConnected throws
C13_TornDownOnTransportFailure ==
  \A t \in Tasks : InstallTask(tasks[t]) /\ tasks[t].pc = "failed" /\ TransportFailed(tasks[t]) =>
    currentAdb = 0 /\ notConnected

\* C14: an invocation of disconnect never fails, also when close rejects,
\* and when it has returned the session slot is empty
C14_DisconnectLeavesSlotEmpty ==
  \A t \in Tasks : tasks[t].kind = "disconnect" =>
    /\ tasks[t].pc # "failed"
    /\ tasks[t].pc = "done" => currentAdb = 0

\* how often onAuthPending has been called when the connect attempt is where
\* it is: not before the link is open, once from then on
AuthPendingCalls(rec) ==
  IF rec.pc \in {"authenticate", "getprop1", "getprop2"} THEN {1}
  ELSE IF rec.pc \in {"requestDevice", "deviceConnect"} THEN {0}
  ELSE IF rec.pc = "failed" /\ rec.at \in {"requestDevice", "deviceConnect"} THEN {0}
  ELSE IF rec.pc = "failed" THEN {1}
  ELSE {0, 1}

\* the step in which connect attempt t fails before it has a session
ConnectFails(t) ==
  /\ tasks'[t].kind = "connect" /\ tasks'[t].pc = "failed" /\ tasks'[t] # tasks[t]
  /\ tasks'[t].at \in {"requestDevice", "deviceConnect", "authenticate"}

\* the step in which the link of connect attempt t opens
LinkOpens(t) ==
  tasks[t].kind = "connect" /\ tasks[t].pc = "deviceConnect" /\ tasks'[t].pc = "authenticate"

\* C15: onAuthPending is called in the step in which the link opens, which
\* is before authentication settles, and in no other step, so once per
\* connect attempt whose link opens and never when the link fails to open;
\* the step in which a connect attempt fails on the picker, the link or the
\* authentication creates no session and leaves the slot as it was
C15_AuthPendingOnceAfterLink ==
  [][\A t \in Tasks :
        /\ tasks'[t].kind = "connect" => tasks'[t].authPending \in AuthPendingCalls(tasks'[t])
        /\ LinkOpens(t) => tasks[t].authPending = 0 /\ tasks'[t].authPending = 1
        /\ tasks[t].kind = "connect" /\ ~Finished(tasks[t]) /\ ~LinkOpens(t) =>
             tasks'[t].authPending = tasks[t].authPending
        /\ ConnectFails(t) => currentAdb' = currentAdb /\ sessions' = sessions]_vars

C15_Witness ==
  \E t \in Tasks : /\ tasks[t].kind = "connect" /\ tasks[t].pc = "failed"
                   /\ tasks[t].at = "authenticate" /\ tasks[t].authPending = 1
                   /\ currentAdb = tasks[t].startAdb /\ currentAdb # 0

\* the installable asset of a release of the feed: the first asset whose name
\* ends, whatever the case, in .apk and that has a download URL
Installable(r) == {i \in 1..Len(r.assets) : isApkAsset(r.assets[i])}

Eligible(r) == ~r.draft /\ Installable(r) # {}

\* the invocation is past the choice of a release, or has failed
Resolved(p) == p.fn = "fetchLatestRoqApk" /\ p.pc \in {"download", "blob", "done", "failed"}

\* C16: when the latest endpoint answers with a success status and the
\* release it returns is a draft or has no installable asset, resolution
\* neither fails on that release nor takes it: it goes on to the full list
C16_IneligibleLatestFallsThrough ==
  Resolved(probe) /\ probe.latestOk /\ ~Eligible(probe.latest) => probe.listFetched

\* the positions of the full list that selection may take: the first
\* eligible release that is not a prerelease, else the first eligible one
Selected(items) ==
  LET eligible == {i \in 1..Len(items) : Eligible(items[i])}
      stable == {i \in eligible : ~items[i].prerelease}
      from == IF stable # {} THEN stable ELSE eligible
  IN {i \in from : \A j \in from : i <= j}

\* C17: once the full list has arrived, the release taken is the first
\* eligible one that is not a prerelease, or the first eligible one when all
\* eligible ones are prereleases, with its installable asset; resolution
\* fails at that point exactly when no release of the list is eligible
C17_SelectsFirstEligiblePreferringStable ==
  Resolved(probe) /\ probe.listOk /\ probe.list.isArray =>
    LET items == probe.list.items
    IN IF Selected(items) = {}
         THEN probe.pc = "failed" /\ probe.apkAsset = NoAsset
         ELSE /\ probe.apkAsset # NoAsset
              /\ \A i \in Selected(items) :
                    /\ probe.releaseData = items[i]
                    /\ probe.apkAsset = findApkAsset(items[i].assets)

\* the errors parseReleaseManifest throws
ManifestErrors == {ErrHeader, ErrColumns, ErrEmptyMeta, ErrNoFilelist, ErrNoApk, ErrNoObb}

Parsed(p) == p.fn = "parseReleaseManifest" /\ p.pc = "returned"

\* C18: parseReleaseManifest never returns a partial result: for every text
\* it either throws one of its manifest errors and returns nothing, or
\* returns an info with a non-empty packageName, a non-empty versionCode, a
\* package path ending in .apk and at least one auxiliary path
C18_NoPartialManifest ==
  Parsed(probe) =>
    \/ /\ ~probe.result.ok
       /\ probe.result.error \in ManifestErrors
       /\ probe.result.info = NoInfo
    \/ /\ probe.result.ok
       /\ probe.result.info.packageName # <<>>
       /\ probe.result.info.versionCode # <<>>
       /\ endsWith(toLowerCase(probe.result.info.apkPath), sApkExt)
       /\ probe.result.info.obbPaths # <<>>

C18_Witness ==
  /\ Parsed(probe) /\ probe.result.ok
  /\ probe.result.info.apkPath # toLowerCase(probe.result.info.apkPath)
  /\ Len(probe.result.info.obbPaths) = 2

\* the lines of a manifest text after its #filelist line that count as file
\* entries: at least 3 fields, the first of them the type tag f
Counted(lines) ==
  {i \in (FindIndex(lines, IsFilelist) + 1)..Len(lines) :
     Len(split(lines[i], ";")) >= 3 /\ split(lines[i], ";")[1] = <<"f">>}

\* the normalized path of entry i
EntryPath(lines, i) == normManifestPath(split(lines[i], ";")[2])

\* the entries among the counted ones whose path ends, whatever the case,
\* in ext
WithExt(lines, ext) == {i \in Counted(lines) : endsWith(toLowerCase(EntryPath(lines, i)), ext)}

\* the k-th element of a set of line numbers
Nth(S, k) == CHOOSE i \in S : Cardinality({j \in S : j <= i}) = k

sComExampleApp == <<"c","o","m",".","e","x","a","m","p","l","e",".","a","p","p">>   \* "com.example.app"

\* C19: among the lines after #filelist only those with at least 3 fields
\* and type tag f count; of their normalized paths the first ending,
\* whatever the case, in .apk is the package path and all those ending in
\* .obb are the auxiliary paths, in manifest order; parsing fails on the
\* file list exactly when one of the two kinds has no entry; the manifest of
\* scenario 1 parses to com.example.app, 42, game.apk, [main.1.obb]
C19_FileListClassification ==
  Parsed(probe) =>
    LET lines == manifestLines(probe.text)
        apks == WithExt(lines, sApkExt)
        obbs == WithExt(lines, sObbExt)
        info == probe.result.info
    IN /\ probe.result.ok =>
            /\ apks # {}
            /\ info.apkPath = EntryPath(lines, Nth(apks, 1))
            /\ Len(info.obbPaths) = Cardinality(obbs)
            /\ \A k \in 1..Len(info.obbPaths) : info.obbPaths[k] = EntryPath(lines, Nth(obbs, k))
       /\ probe.result.error = ErrNoApk => apks = {}
       /\ probe.result.error = ErrNoObb => apks # {} /\ obbs = {}
       /\ ~probe.result.ok /\ probe.result.error \notin {ErrNoApk, ErrNoObb} =>
            probe.result.error \in {ErrHeader, ErrColumns, ErrEmptyMeta, ErrNoFilelist}
       /\ probe.text = manifestOne =>
            info = [packageName |-> sComExampleApp, versionCode |-> <<"4", "2">>,
                    apkPath |-> <<"g","a","m","e",".","a","p","k">>,
                    obbPaths |-> << <<"m","a","i","n",".","1",".","o","b","b">> >>]

\* a manifest whose file list has an entry of two fields only, parsed
C19_Witness ==
  /\ Parsed(probe) /\ probe.result.ok
  /\ \E i \in 1..Len(manifestLines(probe.text)) :
        /\ i > FindIndex(manifestLines(probe.text), IsFilelist)
        /\ i \notin Counted(manifestLines(probe.text))
        /\ includes(manifestLines(probe.text)[i], <<";">>)
        /\ split(manifestLines(probe.text)[i], ";")[1] = <<"f">>

LookedUp(p) == p.fn = "findFileByPathOrSuffix" /\ p.pc = "returned"

\* the positions of the file set whose key is the manifest path
ExactKeys(p) == {i \in 1..Len(p.map) : p.map[i].key = p.manifestPath}

\* the positions whose key, backslashes turned into slashes, ends with want
SuffixKeys(p, want) == {i \in 1..Len(p.map) : endsWith(slashes(p.map[i].key), want)}

\* what resolve returns when the suffix scan looks for want
ResolvesTo(p, want) ==
  /\ ExactKeys(p) # {} => \A i \in ExactKeys(p) : p.first = p.map[i].file
  /\ ExactKeys(p) = {} /\ SuffixKeys(p, want) # {} =>
       \E i \in SuffixKeys(p, want) : /\ \A j \in SuffixKeys(p, want) : i <= j
                                      /\ p.first = p.map[i].file
  /\ ExactKeys(p) = {} /\ SuffixKeys(p, want) = {} => p.first = NoFile
  /\ p.second = p.first

\* C20 as stated: the file of the exact key when there is one, else the file
\* of the first key, in file-set order, whose forward-slash-normalized form
\* ends with the manifest path, else not found; the same the second time
C20_SuffixOfManifestPathAsWritten ==
  LookedUp(probe) => ResolvesTo(probe, probe.manifestPath)

\* C20: the file of the exact key when there is one, even when an earlier
\* key ends with the manifest path; else the file of the first key, in
\* file-set order, whose forward-slash-normalized form ends with the
\* forward-slash-normalized manifest path; else not found; resolving the same
\* path a second time against the same file set returns the same file
C20_ExactKeyThenFirstSuffix ==
  LookedUp(probe) => ResolvesTo(probe, slashes(probe.manifestPath))

\* an exact key after an earlier key that ends with the manifest path
C20_Witness ==
  /\ LookedUp(probe)
  /\ \E i \in ExactKeys(probe) : \E j \in SuffixKeys(probe, slashes(probe.manifestPath)) :
        /\ j < i
        /\ probe.map[j].file # probe.map[i].file
        /\ probe.first = probe.map[i].file

Reporter(p) == p.fn = "makePercentLogger"

\* the lines logged at 100 percent or more
AtHundred(lines) == {i \in 1..Len(lines) : lines[i] >= 100}

\* any two lines logged below 100 percent are 5 points apart or more
FiveApart(lines) ==
  \A i, j \in 1..Len(lines) : i < j /\ lines[i] < 100 /\ lines[j] < 100 => lines[j] - lines[i] >= 5

\* C21 as stated: for every sequence of callbacks nothing is logged on
\* total <= 0, exactly one line is logged at 100 percent or more once a
\* callback has reached it, and two lines below 100 are 5 points apart
C21_OneLineAtHundredForEverySequence ==
  Reporter(probe) =>
    /\ ~probe.nonPositive
    /\ probe.atHundred > 0 => Cardinality(AtHundred(probe.lines)) = 1
    /\ FiveApart(probe.lines)

\* C21: nothing is logged by a callback with total <= 0; every callback at
\* 100 percent or more logs one line, so that a push, whose callbacks carry
\* a growing sent that reaches total with the last chunk, logs exactly one
\* line at 100 percent (none for an empty file); and any two lines logged
\* below 100 percent are at least 5 points apart
C21_OneLinePerCallbackAtHundred ==
  Reporter(probe) =>
    /\ ~probe.nonPositive
    /\ Cardinality(AtHundred(probe.lines)) = probe.atHundred
    /\ probe.feed = "pull" => probe.atHundred <= 1
    /\ probe.feed = "pull" /\ probe.done =>
         /\ probe.total > 0 => Cardinality(AtHundred(probe.lines)) = 1 /\ probe.lines[Len(probe.lines)] = 100
         /\ probe.total = 0 => probe.lines = <<>>
    /\ FiveApart(probe.lines)

\* a push of 50 bytes over, with the line of (29, 50) among those logged
C21_Witness ==
  /\ Reporter(probe) /\ probe.feed = "pull" /\ probe.done /\ probe.total = 50
  /\ Len(probe.lines) >= 3
  /\ \E i \in 1..Len(probe.lines) : probe.lines[i] = 57

\* the Files an install attempt can push as its package
PackageFiles == {fPickedApk, fOddApk, fGameApk, fMyGameApk, File(10, APK_FILE_NAME, <<>>)}

\* path is "/data/local/tmp/", a timestamp, "_" and name with every
\* character outside [A-Za-z0-9._-] replaced by "_"
IsTempPathOf(path, name) ==
  \E now \in Timestamps :
    /\ Len(path) = Len(sTmpDir \o itoa(now)) + 1 + Len(name)
    /\ SubSeq(path, 1, Len(sTmpDir \o itoa(now)) + 1) = sTmpDir \o itoa(now) \o <<"_">>
    /\ \A i \in 1..Len(name) :
          path[Len(sTmpDir \o itoa(now)) + 1 + i] = IF name[i] \in SafeChars THEN name[i] ELSE "_"

\* what follows "/data/local/tmp/" in path holds only [A-Za-z0-9._-]
SegmentSafe(path) == \A i \in (Len(sTmpDir) + 1)..Len(path) : path[i] \in SafeChars

C22_Path(rec) ==
  /\ \E f \in PackageFiles : f.id = rec.ops[1].file /\ IsTempPathOf(rec.ops[1].path, f.name)
  /\ SegmentSafe(rec.ops[1].path)
  /\ IsPush(rec.ops[1], rec.ops[1].path)
  /\ Len(rec.ops) >= 2 => IsShell(rec.ops[2], PmInstall, rec.ops[1].path)
  /\ Len(rec.ops) >= 3 => IsShell(rec.ops[3], RmForce, rec.ops[1].path)

\* C22: the package of an attempt is pushed to "/data/local/tmp/", the
\* timestamp, "_" and the file name with every character outside
\* [A-Za-z0-9._-] replaced by "_"; the file name part of that path holds only
\* [A-Za-z0-9._-]; "pm install -r" and "rm -f" of the attempt are called with
\* that same path
C22_SanitizedTempPath ==
  \A t \in Tasks : InstallTask(tasks[t]) /\ Len(tasks[t].ops) >= 1 => C22_Path(tasks[t])

\* a complete attempt for the file named "../My App v1.0 (final)!;$x.apk"
C22_Witness ==
  \E t \in Tasks : /\ InstallTask(tasks[t]) /\ tasks[t].pc = "done"
                   /\ Len(tasks[t].ops) = 3 /\ tasks[t].ops[1].file = fOddApk.id
                   /\ tasks[t].ops[3].st = "ok"

\* the calls of "mkdir -p" among the calls of an attempt
Mkdirs(rec) == {k \in DOMAIN rec.ops : rec.ops[k].call = "shell" /\ rec.ops[k].cmd = MkdirParents}

\* the pushes of auxiliary files among the calls of a bundle attempt
AuxPushes(rec) == {k \in DOMAIN rec.ops : k >= 2 /\ rec.ops[k].call = "pushFileStream"}

C23_Bundle(rec) ==
  /\ Mkdirs(rec) \subseteq {4}
  /\ AuxPushes(rec) \subseteq {k \in DOMAIN rec.ops : k >= 5}
  /\ Len(rec.ops) >= 4 =>
       /\ Mkdirs(rec) = {4}
       /\ rec.ops[4].path = sObbRoot \o rec.info.packageName
       /\ PrefixOk(rec, 3) /\ rec.report # "none"
  /\ \A k \in AuxPushes(rec) :
       /\ rec.ops[4].st = "ok"
       /\ rec.ops[k].path = rec.ops[4].path \o <<"/">> \o basename(rec.obbFiles[k - 4].path)
       /\ rec.ops[k].file = rec.obbFiles[k - 4].file.id
  /\ Len(rec.ops) >= 4 /\ rec.ops[4].st \in {"failed", "rejected"} =>
       AuxPushes(rec) = {} /\ rec.pc = "failed"
  /\ rec.pc = "done" => Mkdirs(rec) = {4} /\ AuxPushes(rec) = 5..(4 + Len(rec.obbFiles))

\* C23: in a bundle install "mkdir -p /sdcard/Android/obb/<packageName>" is
\* called once, as the fourth call, when push, install and delete of the
\* package have returned and the outcome line is written; every auxiliary
\* push comes after it has returned and goes to that directory, "/" and the
\* basename of the manifest path; when mkdir fails no auxiliary file is
\* pushed and the attempt is Failed
C23_MkdirOnceBeforeAuxPushes ==
  \A t \in Tasks : tasks[t].kind = "installBundle" /\ tasks[t].pc # "idle" => C23_Bundle(tasks[t])

\* a complete bundle install whose first auxiliary path lies in a folder
C23_Witness ==
  \E t \in Tasks : /\ tasks[t].kind = "installBundle" /\ tasks[t].pc = "done"
                   /\ Len(tasks[t].ops) = 6
                   /\ basename(tasks[t].obbFiles[1].path) # tasks[t].obbFiles[1].path

\* the calls of an attempt that went out to a session
Sent(rec) == {k \in DOMAIN rec.ops : rec.ops[k].st # "rejected"}

\* C24: every call of an install attempt that goes out to the device goes to
\* the session the slot held when the attempt's connection check passed: the
\* install command and the delete command go to the session that received
\* the push
C24_OneSessionPerAttempt ==
  \A t \in Tasks : InstallTask(tasks[t]) =>
    \A k \in Sent(tasks[t]) : tasks[t].ops[k].sess = tasks[t].startAdb

\* the step in which in-flight install attempt t starts a call
StartsCall(t) ==
  /\ InstallTask(tasks[t]) /\ ~Finished(tasks[t]) /\ tasks[t].ops # <<>>
  /\ Len(tasks'[t].ops) = Len(tasks[t].ops) + 1

\* the step in which the disconnect handler is invoked in slot t
DisconnectInvoked(t) ==
  Free(t) /\ tasks'[t].kind = "disconnect" /\ tasks'[t].pc \in {"closing", "done"}

\* the step in which the authentication of connect attempt t succeeds
ConnectSucceeds(t) ==
  /\ tasks[t].kind = "connect" /\ tasks[t].pc = "authenticate"
  /\ tasks'[t].pc \notin {"authenticate", "failed"}

\* C25: while the slot is empty, which it is from the call of disconnect
\* until a later connect succeeds, a push or command that an in-flight
\* install attempt starts is refused with "No device connected." before
\* anything is handed to a session, and the attempt is Failed with that error
C25_CallsAfterDisconnectRefused ==
  [][/\ \A t \in Tasks : DisconnectInvoked(t) => currentAdb' = 0
     /\ currentAdb = 0 /\ currentAdb' # 0 => \E t \in Tasks : ConnectSucceeds(t)
     /\ \A t \in Tasks : StartsCall(t) /\ currentAdb = 0 =>
          /\ tasks'[t].ops[Len(tasks'[t].ops)].st = "rejected"
          /\ tasks'[t].ops[Len(tasks'[t].ops)].sess = 0
          /\ tasks'[t].pc = "failed"
          /\ tasks'[t].err = ErrNoDevice
          /\ sessions' = sessions]_vars

\* an attempt whose push went out and whose install command was refused
C25_Witness ==
  \E t \in Tasks : /\ InstallTask(tasks[t]) /\ tasks[t].pc = "failed"
                   /\ Len(tasks[t].ops) = 2 /\ tasks[t].ops[1].st = "ok"
                   /\ tasks[t].ops[2].st = "rejected" /\ tasks[t].err = ErrNoDevice
                   /\ tasks[t].startAdb # 0 /\ currentAdb = 0

\* the calls of "rm -f" among the calls of an attempt
Deletes(rec) == {k \in DOMAIN rec.ops : rec.ops[k].call = "shell" /\ rec.ops[k].cmd = RmForce}

C26_Attempt(rec) ==
  /\ \A k \in Deletes(rec) : k = 3 /\ rec.ops[2].st = "ok" /\ IsShell(rec.ops[2], PmInstall, rec.ops[3].path)
  /\ \A k \in Errored(rec) : k <= 2 => Deletes(rec) = {} /\ rec.pc = "failed" /\ Len(rec.ops) = k

\* C26: "rm -f" of the temp path is called only when "pm install -r" has
\* returned its output; an attempt whose push or whose install command ended
\* in an error is Failed and has called no "rm -f"
C26_NoDeleteAfterPushOrInstallError ==
  \A t \in Tasks : InstallTask(tasks[t]) => C26_Attempt(tasks[t])

\* an attempt whose install command raised an error after the push returned
C26_Witness ==
  \E t \in Tasks : /\ InstallTask(tasks[t]) /\ tasks[t].pc = "failed"
                   /\ Len(tasks[t].ops) = 2 /\ tasks[t].ops[1].st = "ok"
                   /\ tasks[t].ops[2].st = "failed"
                   /\ sessions[tasks[t].ops[1].sess] = "open"

\* no connect, disconnect or install handler is in progress
Quiet == \A t \in Tasks : Free(t)

\* C27: whenever no handler is in progress the connected flag is true
\* exactly when the slot holds a session
C27_FlagMatchesSlotWhenQuiet ==
  Quiet => (connected <=> currentAdb # 0)

====
